---- MODULE Spec2Model ----
(***************************************************************************)
(* A model of the retro IC sold-listing pipeline: the text normalizers,    *)
(* the relevance/exclusion filter, the variant classifier, the             *)
(* deduplicator and the aggregator of retro_ic_scraper.py, driven by its   *)
(* main (the live driver) and by summarise.py (the re-processing driver).  *)
(*                                                                         *)
(* Text is modelled by TLA+ strings, character by character.  A price is   *)
(* modelled by its exact value in hundredths (the code holds a float that  *)
(* was parsed from text with at most two fractional digits).               *)
(***************************************************************************)
EXTENDS Integers, Sequences, FiniteSets, TLC

\* ------------------------------------------------------------------------
\* Bounds of the model
\* ------------------------------------------------------------------------

\* Only the first MaxQueries search queries of a family are put on the work list.
MaxQueries == 2

\* The cards of all fetched result pages of one run, together.
MaxCards == 2

\* The rows of the CSV file the re-processing driver reads.
MaxRows == 3

\* ------------------------------------------------------------------------
\* Python string primitives
\* ------------------------------------------------------------------------

NoneValue == "<None>"

\* The characters outside ASCII of the code and of its inputs, each written
\* with an ASCII character that the texts of the model use for nothing else:
\* the strings of a state are kept as bytes. None of them is a letter, a
\* digit or white space, like the characters they stand for.
POUND == "#"

EURO == "&"

YEN == "~"

\* s[i - 1] of Python, "" outside the string
CharAt(s, i) == IF 1 <= i /\ i <= Len(s) THEN SubSeq(s, i, i) ELSE ""

\* s.startswith(p)
StartsWith(s, p) == Len(s) >= Len(p) /\ SubSeq(s, 1, Len(p)) = p

\* kw in s
Contains(kw, s) ==
    \E i \in 1..(Len(s) - Len(kw) + 1) : SubSeq(s, i, i + Len(kw) - 1) = kw

ASCII_UPPER == "ABCDEFGHIJKLMNOPQRSTUVWXYZ"

ASCII_LOWER == "abcdefghijklmnopqrstuvwxyz"

DIGITS == "0123456789"

\* The function that maps the k-th character of from to the k-th of to.
RECURSIVE CharMap(_, _, _)
CharMap(from, to, k) ==
    IF k > Len(from) THEN <<>>
    ELSE (SubSeq(from, k, k) :> to[k]) @@ CharMap(from, to, k + 1)

\* Each upper case letter's lower case letter.
ToLower == CharMap(ASCII_UPPER, [k \in 1..26 |-> SubSeq(ASCII_LOWER, k, k)], 1)

\* Each digit's value.
DigitValues == CharMap(DIGITS, [k \in 1..10 |-> k - 1], 1)

UpperChars == DOMAIN ToLower

LowerChars == DOMAIN CharMap(ASCII_LOWER, [k \in 1..26 |-> k], 1)

DigitChars == DOMAIN DigitValues

IsUpper(c) == c \in UpperChars

IsLower(c) == c \in LowerChars

IsDigit(c) == c \in DigitChars

\* \s of the re module, on the characters the inputs are written with
IsSpace(c) == c \in {" ", "\t", "\n"}

\* \w of the re module, on the characters the inputs are written with
IsWord(c) == IsUpper(c) \/ IsLower(c) \/ IsDigit(c) \/ c = "_"

LowerChar(c) == IF IsUpper(c) THEN ToLower[c] ELSE c

\* str.lower()
RECURSIVE str_lower(_)
str_lower(s) ==
    IF s = "" THEN "" ELSE LowerChar(CharAt(s, 1)) \o str_lower(Tail(s))

RECURSIVE str_lstrip(_)
str_lstrip(s) ==
    IF s # "" /\ IsSpace(CharAt(s, 1)) THEN str_lstrip(Tail(s)) ELSE s

RECURSIVE str_rstrip(_)
str_rstrip(s) ==
    IF s # "" /\ IsSpace(CharAt(s, Len(s)))
    THEN str_rstrip(SubSeq(s, 1, Len(s) - 1))
    ELSE s

\* str.strip()
str_strip(s) == str_rstrip(str_lstrip(s))

\* str.replace(",", "")
RECURSIVE remove_commas(_)
remove_commas(s) ==
    IF s = "" THEN ""
    ELSE (IF CharAt(s, 1) = "," THEN "" ELSE CharAt(s, 1)) \o remove_commas(Tail(s))

DigitValue(c) == DigitValues[c]

\* The number a string of decimal digits denotes.
RECURSIVE DecimalValue(_)
DecimalValue(ds) ==
    IF ds = "" THEN 0
    ELSE 10 * DecimalValue(SubSeq(ds, 1, Len(ds) - 1)) + DigitValue(CharAt(ds, Len(ds)))

\* The end of the longest run of digits that starts at i (i - 1 when there
\* is none): a greedy \d* of the re module.
RECURSIVE DigitRunEnd(_, _)
DigitRunEnd(s, i) ==
    IF i <= Len(s) /\ IsDigit(CharAt(s, i)) THEN DigitRunEnd(s, i + 1) ELSE i - 1

\* The same for whitespace: a greedy \s*.
RECURSIVE SpaceRunEnd(_, _)
SpaceRunEnd(s, i) ==
    IF i <= Len(s) /\ IsSpace(CharAt(s, i)) THEN SpaceRunEnd(s, i + 1) ELSE i - 1

AllDigits(s) == \A i \in 1..Len(s) : IsDigit(CharAt(s, i))

\* ------------------------------------------------------------------------
\* Chip family catalog
\* ------------------------------------------------------------------------

\* VariantRule(label, include, exclude=())
VariantRule(label, include, exclude) ==
    [label |-> label, include |-> include, exclude |-> exclude]

ChipFamily(name, queries, exclude, must_match, variant_rules) ==
    [name |-> name, queries |-> queries, exclude |-> exclude,
     must_match |-> must_match, variant_rules |-> variant_rules]

GLOBAL_EXCLUSIONS == <<"replacement", "replica", "clone", "fpga", "emulator">>

\* The keys of CHIP_FAMILIES, in the order of the dict.
FAMILY_IDS ==
    <<"sid", "vic-ii", "denise", "paula", "agnus", "ym2151", "ym2612",
      "sn76489", "2a03", "discover">>

FamilyIdSet == {FAMILY_IDS[k] : k \in 1..Len(FAMILY_IDS)}

FAMILY_SID ==
    ChipFamily("MOS SID",
        <<"MOS 6581 SID", "MOS 8580 SID", "SID chip Commodore 64",
          "6581 sound chip", "8580 sound chip", "MOS 6581R4", "MOS 8580R5">>,
        <<"sidkick", "swinsid", "armsid", "fpgasid", "arm2sid",
          "nano sid", "nanosid", "x-sid", "xsid", "mixsid">>,
        <<"sid", "6581", "8580">>,
        <<VariantRule("6581", <<"6581">>, <<>>),
          VariantRule("8580", <<"8580">>, <<>>)>>)

FAMILY_VIC_II ==
    ChipFamily("MOS VIC-II",
        <<"MOS 6567 VIC", "MOS 6569 VIC", "MOS 8562", "MOS 8565", "VIC-II chip">>,
        <<"vic-20">>,
        <<"vic", "6567", "6569", "8562", "8565", "8566">>,
        <<VariantRule("6567 (NTSC)", <<"6567">>, <<>>),
          VariantRule("6569 (PAL)", <<"6569">>, <<>>),
          VariantRule("8562 (NTSC)", <<"8562">>, <<>>),
          VariantRule("8565 (PAL)", <<"8565">>, <<>>),
          VariantRule("8566", <<"8566">>, <<>>)>>)

FAMILY_DENISE ==
    ChipFamily("Amiga Denise",
        <<"Amiga Denise 8362", "Amiga Denise 8373", "Super Denise",
          "MOS 8362 Denise", "CSG 8373 Denise">>,
        <<>>,
        <<"denise", "8362", "8373", "390433", "391081">>,
        <<VariantRule("PLCC-52 Super (391081)",
                      <<"391081", "8373r4pl", "plcc">>, <<>>),
          VariantRule("DIP-48 Super (8373)",
                      <<"8373", "super denise", "390433">>,
                      <<"plcc", "391081", "8373r4pl">>),
          VariantRule("DIP-48 OCS (8362)", <<"8362">>, <<>>)>>)

FAMILY_PAULA ==
    ChipFamily("Amiga Paula",
        <<"Amiga Paula 8364", "CSG 8364R7 Paula">>,
        <<"abdul", "choice", "yates", "rego", "cole band", "cole amen",
          "figurine", "autograph", "vinyl", "record", "album",
          "photo", "book", "wigs", "blouse", "top ", "dress",
          "sweater", "nylons", "stockings", "denarius", "brooch",
          "ski ", "prentiss", "doll", "hey paula", "disco poster">>,
        <<"8364", "paula chip", "paula audio", "paula sound", "252127", "391077">>,
        <<VariantRule("PLCC-52 (391077)", <<"391077", "8364r7pl", "plcc">>, <<>>),
          VariantRule("DIP-48 (8364)", <<"8364">>,
                      <<"plcc", "391077", "8364r7pl">>)>>)

FAMILY_AGNUS ==
    ChipFamily("Amiga Agnus",
        <<"Amiga Agnus 8372A", "Amiga Agnus 8375", "Fat Agnus chip",
          "Fatter Agnus chip", "CSG 8372 Agnus">>,
        <<"vitex", "equine", "supplement", "mares", "chasteberry",
          "hormone", "t-shirt", "shirt">>,
        <<"agnus", "8361", "8370", "8371", "8372", "8375", "318069", "390544">>,
        <<VariantRule("DIP-48 (8361/8370/8371)", <<"8361", "8370", "8371">>, <<>>),
          VariantRule("PLCC-84 8372/A (1MB)", <<"8372">>, <<"8375">>),
          VariantRule("PLCC-84 8375 (2MB)", <<"8375", "390544">>, <<>>)>>)

FAMILY_YM2151 ==
    ChipFamily("Yamaha YM2151",
        <<"Yamaha YM2151", "YM2151 OPM", "YM2151 sound chip">>,
        <<"breakout board", "module", "synth">>,
        <<"ym2151">>,
        <<>>)

FAMILY_YM2612 ==
    ChipFamily("Yamaha YM2612",
        <<"Yamaha YM2612", "YM2612 OPN2", "YM2612 Sega Genesis">>,
        <<"breakout board", "module", "synth">>,
        <<"ym2612">>,
        <<>>)

FAMILY_SN76489 ==
    ChipFamily("TI SN76489",
        <<"SN76489 sound chip", "TI SN76489", "SN76489AN">>,
        <<>>,
        <<"sn76489", "76489">>,
        <<VariantRule("SN76489AN", <<"sn76489an">>, <<>>)>>)

FAMILY_2A03 ==
    ChipFamily("Ricoh 2A03",
        <<"Ricoh 2A03 NES", "RP2A03 NES", "Ricoh 2A07 NES", "RP2A07 NES">>,
        <<>>,
        <<"2a03", "2a07", "rp2a">>,
        <<VariantRule("2A03 (NTSC)", <<"2a03">>, <<"2a07">>),
          VariantRule("2A07 (PAL)", <<"2a07">>, <<>>)>>)

FAMILY_DISCOVER ==
    ChipFamily("Discovery",
        <<"vintage sound chip IC", "retro computer chip IC", "vintage game chip",
          "MOS custom chip", "Amiga custom chip">>,
        <<>>,
        <<>>,
        <<>>)

CHIP_FAMILIES ==
    [fam_id \in FamilyIdSet |->
        CASE fam_id = "sid" -> FAMILY_SID
          [] fam_id = "vic-ii" -> FAMILY_VIC_II
          [] fam_id = "denise" -> FAMILY_DENISE
          [] fam_id = "paula" -> FAMILY_PAULA
          [] fam_id = "agnus" -> FAMILY_AGNUS
          [] fam_id = "ym2151" -> FAMILY_YM2151
          [] fam_id = "ym2612" -> FAMILY_YM2612
          [] fam_id = "sn76489" -> FAMILY_SN76489
          [] fam_id = "2a03" -> FAMILY_2A03
          [] fam_id = "discover" -> FAMILY_DISCOVER]

\* ------------------------------------------------------------------------
\* General configuration
\* ------------------------------------------------------------------------

\* The keys of EBAY_SITES.
EBAY_SITES == {"com", "co.uk", "de"}

CURRENCY_SYMBOLS == [sym \in {"$", POUND, EURO} |->
    CASE sym = "$" -> "USD" [] sym = POUND -> "GBP" [] sym = EURO -> "EUR"]

\* The upper limit of an accepted price, 5000.0, in hundredths.
PRICE_CEILING == 500000

\* The default of --min-price, 1.0, in hundredths.
DEFAULT_MIN_PRICE == 100

\* ------------------------------------------------------------------------
\* Text normalizers
\* ------------------------------------------------------------------------

NOISE_PREFIX == "new listing"

NOISE_SUFFIX == "opens in a new window or tab"

\* TITLE_NOISE.sub("", raw): "^New listing" is removed at the start, and
\* "Opens in a new window or tab$" at the end ($ also matches before one final
\* newline), both whatever the case of the letters.
title_noise_sub(raw) ==
    LET low == str_lower(raw)
        n == Len(raw)
        np == Len(NOISE_PREFIX)
        ns == Len(NOISE_SUFFIX)
        from == IF StartsWith(low, NOISE_PREFIX) THEN np + 1 ELSE 1
        atEnd == n >= ns /\ SubSeq(low, n - ns + 1, n) = NOISE_SUFFIX
        beforeNl == /\ n >= ns + 1
                    /\ CharAt(raw, n) = "\n"
                    /\ SubSeq(low, n - ns, n - 1) = NOISE_SUFFIX
    IN  IF atEnd /\ n - ns + 1 >= from THEN SubSeq(raw, from, n - ns)
        ELSE IF beforeNl /\ n - ns >= from THEN SubSeq(raw, from, n - ns - 1) \o "\n"
        ELSE SubSeq(raw, from, n)

\* re.sub(r"\s{2,}", " ", s)
RECURSIVE collapse_spaces(_)
collapse_spaces(s) ==
    IF s = "" THEN ""
    ELSE IF IsSpace(CharAt(s, 1))
         THEN LET e == SpaceRunEnd(s, 1)
              IN  (IF e >= 2 THEN " " ELSE CharAt(s, 1))
                  \o collapse_spaces(SubSeq(s, e + 1, Len(s)))
         ELSE CharAt(s, 1) \o collapse_spaces(Tail(s))

\* A cleaner that does not trim what the removal of the markers leaves.
clean_title_untrimmed(raw) == collapse_spaces(title_noise_sub(raw))

clean_title(raw) == collapse_spaces(str_strip(title_noise_sub(raw)))

IsCurrencySymbol(c) == c \in DOMAIN CURRENCY_SYMBOLS

\* Where PRICE_RE, ([$£€])\s?([\d,]+(?:\.\d{1,2})?), matches with its symbol
\* at i: the first and last position of group 2, or <<0, 0>>. The text holds
\* no comma any more.
price_match_at(t, i) ==
    LET d == IF IsSpace(CharAt(t, i + 1)) /\ IsDigit(CharAt(t, i + 2))
             THEN i + 2 ELSE i + 1
        e == DigitRunEnd(t, d)
        f == IF CharAt(t, e + 1) = "." /\ IsDigit(CharAt(t, e + 2))
             THEN (IF IsDigit(CharAt(t, e + 3)) THEN e + 3 ELSE e + 2)
             ELSE e
    IN  IF i <= Len(t) /\ IsCurrencySymbol(CharAt(t, i)) /\ e >= d
        THEN <<d, f>> ELSE <<0, 0>>

\* Whether text is a plain decimal with at most two fractional digits.
\* (Texts float() reads otherwise - exponents, signs, inf, more digits - are
\* not among the inputs; on any other text float() raises ValueError.)
float_parses(text) ==
    LET e == DigitRunEnd(text, 1)
        frac == SubSeq(text, e + 2, Len(text))
    IN  /\ e >= 1
        /\ \/ e = Len(text)
           \/ /\ CharAt(text, e + 1) = "."
              /\ Len(frac) <= 2
              /\ AllDigits(frac)

\* float(m.group(2)) of digits with at most two fractional digits, in hundredths
amount_value(a) ==
    LET e == DigitRunEnd(a, 1)
        frac == SubSeq(a, e + 2, Len(a))
    IN  100 * DecimalValue(SubSeq(a, 1, e))
        + (IF Len(frac) = 1 THEN 10 * DecimalValue(frac) ELSE DecimalValue(frac))

\* The None parse_price returns; a parse is the tuple <<price, currency>>.
NoParse == <<>>

\* The value and currency of the match of PRICE_RE that has its symbol at i:
\* None when float() raises ValueError on the amount.
price_of_match(t, i, m) ==
    IF ~float_parses(SubSeq(t, m[1], m[2])) THEN NoParse
    ELSE <<amount_value(SubSeq(t, m[1], m[2])), CURRENCY_SYMBOLS[CharAt(t, i)]>>

\* PRICE_RE.search from position i on.
RECURSIVE price_search_from(_, _)
price_search_from(t, i) ==
    IF i > Len(t) THEN NoParse
    ELSE IF price_match_at(t, i) # <<0, 0>> THEN price_of_match(t, i, price_match_at(t, i))
    ELSE price_search_from(t, i + 1)

\* A parser that leaves the commas in the text, so that the amount ends at
\* the first of them.
parse_price_keep_commas(text) == price_search_from(text, 1)

parse_price(text) == price_search_from(remove_commas(text), 1)

\* ------------------------------------------------------------------------
\* Relevance / exclusion filter and variant classifier
\* ------------------------------------------------------------------------

\* any(kw in title_lower for kw in kws)
AnyIn(kws, title_lower) == \E k \in 1..Len(kws) : Contains(kws[k], title_lower)

\* An exclusion test that looks at the global keywords only.
is_excluded_global_only(title, family) ==
    AnyIn(GLOBAL_EXCLUSIONS, str_lower(title))

is_excluded(title, family) ==
    LET title_lower == str_lower(title)
    IN  IF AnyIn(GLOBAL_EXCLUSIONS, title_lower) THEN TRUE
        ELSE IF AnyIn(family.exclude, title_lower) THEN TRUE
        ELSE FALSE

is_relevant(title, family) ==
    IF family.must_match = <<>> THEN TRUE
    ELSE AnyIn(family.must_match, str_lower(title))

\* Whether a rule matches: has_include and not has_exclude.
rule_matches(title_lower, rule) ==
    LET has_include == AnyIn(rule.include, title_lower)
        has_exclude == IF rule.exclude # <<>> THEN AnyIn(rule.exclude, title_lower)
                       ELSE FALSE
    IN  has_include /\ ~has_exclude

\* A classifier in which the last matching rule wins.
RECURSIVE classify_last_match(_, _, _)
classify_last_match(title_lower, rules, k) ==
    IF k > Len(rules) THEN "other/mixed"
    ELSE IF classify_last_match(title_lower, rules, k + 1) # "other/mixed"
         THEN classify_last_match(title_lower, rules, k + 1)
    ELSE IF rule_matches(title_lower, rules[k]) THEN rules[k].label
    ELSE "other/mixed"

RECURSIVE classify_from(_, _, _)
classify_from(title_lower, rules, k) ==
    IF k > Len(rules) THEN "other/mixed"
    ELSE IF rule_matches(title_lower, rules[k]) THEN rules[k].label
    ELSE classify_from(title_lower, rules, k + 1)

classify_variant(title, rules) == classify_from(str_lower(title), rules, 1)

\* The label without the callers' test of the rule list.
variant_label_unguarded(item) ==
    classify_variant(item.title, CHIP_FAMILIES[item.chip_family].variant_rules)

\* The label print_summary and write_summary_csv give an item.
variant_label(item) ==
    LET family == CHIP_FAMILIES[item.chip_family]
    IN  IF family.variant_rules # <<>>
        THEN classify_variant(item.title, family.variant_rules)
        ELSE "(all)"

\* ------------------------------------------------------------------------
\* Data model, deduplication, statistics
\* ------------------------------------------------------------------------

SoldListing(chip_family, title, price, currency, date_sold, ebay_site, search_query) ==
    [chip_family |-> chip_family, title |-> title, price |-> price,
     currency |-> currency, date_sold |-> date_sold, ebay_site |-> ebay_site,
     search_query |-> search_query]

listing_key(item) ==
    <<item.chip_family, item.title, item.price, item.date_sold, item.ebay_site>>

\* A deduplicator that takes the whole record for the key: records that
\* differ in search_query or currency alone are all kept.
RECURSIVE dedup_by_record(_, _, _, _)
dedup_by_record(listings, k, seen, unique) ==
    IF k > Len(listings) THEN unique
    ELSE IF listings[k] \notin seen
         THEN dedup_by_record(listings, k + 1, seen \cup {listings[k]},
                              Append(unique, listings[k]))
         ELSE dedup_by_record(listings, k + 1, seen, unique)

\* A deduplicator that forgets a key when it drops a record: the third
\* occurrence of a key is kept again.
RECURSIVE dedup_forgetful(_, _, _, _)
dedup_forgetful(listings, k, seen, unique) ==
    IF k > Len(listings) THEN unique
    ELSE IF listing_key(listings[k]) \notin seen
         THEN dedup_forgetful(listings, k + 1, seen \cup {listing_key(listings[k])},
                              Append(unique, listings[k]))
         ELSE dedup_forgetful(listings, k + 1, seen \ {listing_key(listings[k])}, unique)

RECURSIVE dedup_from(_, _, _, _)
dedup_from(listings, k, seen, unique) ==
    IF k > Len(listings) THEN unique
    ELSE LET key == listing_key(listings[k])
         IN  IF key \notin seen
             THEN dedup_from(listings, k + 1, seen \cup {key}, Append(unique, listings[k]))
             ELSE dedup_from(listings, k + 1, seen, unique)

\* No deduplication at all.
no_dedup(listings) == listings

dedup_listings(listings) == dedup_from(listings, 1, {}, <<>>)

\* list.insert keeping the list ascending
RECURSIVE insert_sorted(_, _)
insert_sorted(xs, x) ==
    IF xs = <<>> THEN <<x>>
    ELSE IF x < Head(xs) THEN <<x>> \o xs
    ELSE <<Head(xs)>> \o insert_sorted(Tail(xs), x)

\* sorted(xs)
RECURSIVE sorted(_)
sorted(xs) ==
    IF xs = <<>> THEN <<>> ELSE insert_sorted(sorted(Tail(xs)), Head(xs))

\* sum(xs)
RECURSIVE sum(_)
sum(xs) == IF xs = <<>> THEN 0 ELSE Head(xs) + sum(Tail(xs))

\* xs[k] of Python, for k >= 0
Index0(xs, k) == xs[k + 1]

\* sum(prices) / n, held as the exact fraction: the float the code computes is
\* its rounding.
Fraction(num, den) == [num |-> num, den |-> den]

\* What _calc_stats gives for an empty group: the division raises.
ZeroDivisionError == [error |-> "ZeroDivisionError"]

\* Statistics whose median is the lower middle element.
_calc_stats_lower_median(items) ==
    LET prices == sorted([k \in 1..Len(items) |-> items[k].price])
        n == Len(prices)
    IN  IF n = 0 THEN ZeroDivisionError
        ELSE [count |-> n,
              mean |-> Fraction(sum(prices), n),
              median |-> Index0(prices, (n - 1) \div 2),
              q1 |-> IF n >= 4 THEN Index0(prices, n \div 4) ELSE Index0(prices, 0),
              q3 |-> IF n >= 4 THEN Index0(prices, (3 * n) \div 4) ELSE prices[n],
              min |-> Index0(prices, 0),
              max |-> prices[n]]

\* Statistics whose quartiles are taken from each other's place.
_calc_stats_quartiles_swapped(items) ==
    LET prices == sorted([k \in 1..Len(items) |-> items[k].price])
        n == Len(prices)
    IN  IF n = 0 THEN ZeroDivisionError
        ELSE [count |-> n,
              mean |-> Fraction(sum(prices), n),
              median |-> Index0(prices, n \div 2),
              q1 |-> IF n >= 4 THEN Index0(prices, (3 * n) \div 4) ELSE prices[n],
              q3 |-> IF n >= 4 THEN Index0(prices, n \div 4) ELSE Index0(prices, 0),
              min |-> Index0(prices, 0),
              max |-> prices[n]]

_calc_stats(items) ==
    LET prices == sorted([k \in 1..Len(items) |-> items[k].price])
        n == Len(prices)
    IN  IF n = 0 THEN ZeroDivisionError
        ELSE [count |-> n,
              mean |-> Fraction(sum(prices), n),
              median |-> Index0(prices, n \div 2),
              q1 |-> IF n >= 4 THEN Index0(prices, n \div 4) ELSE Index0(prices, 0),
              q3 |-> IF n >= 4 THEN Index0(prices, (3 * n) \div 4) ELSE prices[n],
              min |-> Index0(prices, 0),
              max |-> prices[n]]

\* ------------------------------------------------------------------------
\* The floats of _calc_stats's mean
\* ------------------------------------------------------------------------

\* The mean field above is the quotient in exact arithmetic. What the code
\* returns is sum(prices) / n in IEEE 754 doubles, float_mean below: each
\* addition and the division round to 53 significant bits, to nearest and
\* to even on a tie. A double is held as the natural number of 2^-68ths it
\* is, in seven limbs of fifteen bits, least significant first; all values
\* here are between 1 and 2^22, so that at least sixteen bits lie below the
\* 53 that are kept.
LIMB == 32768

LIMBS == 7

LIMB_BITS == 15

FRACTION_LIMBS == 4

FRACTION_BITS == 8

MANTISSA_BITS == 53

\* The limbs of f, as a sequence
limbs(f) == SubSeq(f, 1, LIMBS)

\* F of the value of x: x is computed once, before F is.
with_value(x, F(_)) == CHOOSE r \in {F(v) : v \in {x}} : TRUE

big_of_int(n) ==
    limbs([k \in 1..LIMBS |-> IF k <= 3 THEN (n \div (LIMB ^ (k - 1))) % LIMB ELSE 0])

RECURSIVE add_limbs(_, _, _, _)
add_limbs(a, b, k, carry) ==
    IF k > LIMBS THEN <<>>
    ELSE <<(a[k] + b[k] + carry) % LIMB>>
         \o add_limbs(a, b, k + 1, (a[k] + b[k] + carry) \div LIMB)

big_add(a, b) == add_limbs(a, b, 1, 0)

RECURSIVE mul_limbs(_, _, _, _)
mul_limbs(a, m, k, carry) ==
    IF k > LIMBS THEN <<>>
    ELSE <<(a[k] * m + carry) % LIMB>>
         \o mul_limbs(a, m, k + 1, (a[k] * m + carry) \div LIMB)

\* a * m, for m up to LIMB
big_mul_small(a, m) == mul_limbs(a, m, 1, 0)

\* The limbs 1..k of the quotient and the remainder of a by d, for d up to
\* LIMB, where rem is what the limbs above k left.
RECURSIVE div_limbs(_, _, _, _)
RECURSIVE div_limb_done(_, _, _, _)
div_limb_done(a, d, k, t) ==
    [q |-> Append(div_limbs(a, d, k - 1, t % d).q, t \div d),
     r |-> div_limbs(a, d, k - 1, t % d).r]

div_limbs(a, d, k, rem) ==
    IF k = 0 THEN [q |-> <<>>, r |-> rem]
    ELSE div_limb_done(a, d, k, rem * LIMB + a[k])

big_divmod_small(a, d) == div_limbs(a, d, LIMBS, 0)

shift_limbs(a, j) == limbs([k \in 1..LIMBS |-> IF k <= j THEN 0 ELSE a[k - j]])

RECURSIVE small_bit_length(_)
small_bit_length(x) == IF x = 0 THEN 0 ELSE 1 + small_bit_length(x \div 2)

RECURSIVE top_limb(_, _)
top_limb(a, k) == IF k = 0 \/ a[k] # 0 THEN k ELSE top_limb(a, k - 1)

bit_length_at(a, h) == IF h = 0 THEN 0 ELSE LIMB_BITS * (h - 1) + small_bit_length(a[h])

bit_length(a) == bit_length_at(a, top_limb(a, LIMBS))

\* Bit i of a, the least significant being bit 0.
bit_at(a, i) == (a[(i \div LIMB_BITS) + 1] \div (2 ^ (i % LIMB_BITS))) % 2

\* No bit of a below bit i is set.
low_bits_zero(a, i) ==
    /\ \A k \in 1..(i \div LIMB_BITS) : a[k] = 0
    /\ a[(i \div LIMB_BITS) + 1] % (2 ^ (i % LIMB_BITS)) = 0

clear_low_bits(a, s) ==
    limbs([k \in 1..LIMBS |->
        IF k <= s \div LIMB_BITS THEN 0
        ELSE IF k = (s \div LIMB_BITS) + 1
             THEN (a[k] \div (2 ^ (s % LIMB_BITS))) * (2 ^ (s % LIMB_BITS))
             ELSE a[k]])

big_pow2(s) ==
    limbs([k \in 1..LIMBS |-> IF k = (s \div LIMB_BITS) + 1 THEN 2 ^ (s % LIMB_BITS) ELSE 0])

\* x without its bits below bit s, and one more at bit s when it rounds up.
round_at(x, s, up) ==
    IF up THEN big_add(clear_low_bits(x, s), big_pow2(s)) ELSE clear_low_bits(x, s)

\* The double nearest to x, or to a little more than x when inexact: round
\* to nearest, ties to even, the s bits below the mantissa dropped.
round_bits(x, inexact, s) ==
    IF s <= 0 THEN x
    ELSE round_at(x, s, /\ bit_at(x, s - 1) = 1
                        /\ \/ inexact
                           \/ ~low_bits_zero(x, s - 1)
                           \/ bit_at(x, s) = 1)

round_double(x, inexact) == round_bits(x, inexact, bit_length(x) - MANTISSA_BITS)

\* quotient and remainder, rounded
round_quotient(d) == round_double(d.q, d.r # 0)

\* float("c/100"): the double nearest to a price of c hundredths
float_of_hundredths(c) ==
    with_value(big_mul_small(shift_limbs(big_of_int(c), FRACTION_LIMBS), 2 ^ FRACTION_BITS),
               LAMBDA scaled : with_value(big_divmod_small(scaled, 100), round_quotient))

\* x + y
float_add(x, y) == with_value(big_add(x, y), LAMBDA s : round_double(s, FALSE))

\* x / n
float_div_int(x, n) == with_value(big_divmod_small(x, n), round_quotient)

\* sum(prices): from 0, one addition per price, in the order of the list
RECURSIVE float_sum_from(_, _, _)
float_sum_from(prices, k, acc) ==
    IF k > Len(prices) THEN acc
    ELSE CHOOSE total \in {float_sum_from(prices, k + 1, s) :
                               s \in {float_add(acc, float_of_hundredths(prices[k]))}} : TRUE

float_sum(prices) == float_sum_from(prices, 1, big_of_int(0))

\* "mean": sum(prices) / n, of the sorted prices of a non-empty group
float_mean(prices) ==
    with_value(float_sum(prices), LAMBDA s : float_div_int(s, Len(prices)))

\* The float under "mean" in what _calc_stats returns for a non-empty group.
_calc_stats_mean(items) ==
    float_mean(sorted([k \in 1..Len(items) |-> items[k].price]))

\* x < y, from limb k down
RECURSIVE less_from(_, _, _)
less_from(x, y, k) ==
    IF k = 0 THEN FALSE
    ELSE IF x[k] # y[k] THEN x[k] < y[k]
    ELSE less_from(x, y, k - 1)

float_less(x, y) == less_from(x, y, LIMBS)

\* The whole 2^-68ths of a up to bit 68 dropped: a number below 2^31.
whole_part(a) ==
    (a[FRACTION_LIMBS + 1] \div (2 ^ FRACTION_BITS))
    + a[FRACTION_LIMBS + 2] * (2 ^ (LIMB_BITS - FRACTION_BITS))
    + a[FRACTION_LIMBS + 3] * (2 ^ (2 * LIMB_BITS - FRACTION_BITS))

\* The hundredths of f"{x:.2f}": x * 100 rounded to a whole number, to even
\* on a tie.
hundredths_of(y) ==
    whole_part(y)
    + (IF /\ bit_at(y, LIMB_BITS * FRACTION_LIMBS + FRACTION_BITS - 1) = 1
          /\ \/ ~low_bits_zero(y, LIMB_BITS * FRACTION_LIMBS + FRACTION_BITS - 1)
             \/ whole_part(y) % 2 = 1
       THEN 1 ELSE 0)

two_decimals(x) ==
    with_value(x, LAMBDA v : with_value(big_mul_small(v, 100), hundredths_of))

_detect_package(variant_label_) ==
    LET vl == str_lower(variant_label_)
    IN  IF Contains("plcc-84", vl) THEN "PLCC-84"
        ELSE IF Contains("plcc-52", vl) THEN "PLCC-52"
        ELSE IF Contains("dip-48", vl) THEN "DIP-48"
        ELSE IF Contains("dip", vl) THEN "DIP"
        ELSE IF Contains("plcc", vl) THEN "PLCC"
        ELSE ""

\* ------------------------------------------------------------------------
\* Date parser
\* ------------------------------------------------------------------------

IsWord3(s, i) ==
    i + 2 <= Len(s) /\ \A k \in i..(i + 2) : IsWord(CharAt(s, k))

IsDigit4(s, i) ==
    i + 3 <= Len(s) /\ \A k \in i..(i + 3) : IsDigit(CharAt(s, k))

\* \s+\d{4} after position c, where b is the end of the whitespace that
\* follows c: the last position of the year, or 0.
year_end(s, c, b) == IF b >= c + 1 /\ IsDigit4(s, b + 1) THEN b + 4 ELSE 0

\* ,?\s+\d{4} after the day, which ends at de
mdy_after_day(s, de) ==
    IF CharAt(s, de + 1) = ","
    THEN year_end(s, de + 1, SpaceRunEnd(s, de + 2))
    ELSE year_end(s, de, SpaceRunEnd(s, de + 1))

\* \s+\d{1,2},?\s+\d{4} after the month, which ends at w; a is the end of the
\* whitespace that follows it
mdy_after_month(s, w, a) ==
    IF a >= w + 1 /\ IsDigit(CharAt(s, a + 1))
    THEN mdy_after_day(s, IF IsDigit(CharAt(s, a + 2)) THEN a + 2 ELSE a + 1)
    ELSE 0

\* Where \w{3}\s+\d{1,2},?\s+\d{4} matches from i: its last position, or 0.
match_mdy_at(s, i) ==
    IF IsWord3(s, i) THEN mdy_after_month(s, i + 2, SpaceRunEnd(s, i + 3)) ELSE 0

\* \w{3}\s+\d{4} from a + 1 on
dmy_after_space(s, a) ==
    IF IsWord3(s, a + 1) THEN year_end(s, a + 3, SpaceRunEnd(s, a + 4)) ELSE 0

\* \s+\w{3}\s+\d{4} after the day, which ends at de; a is the end of the
\* whitespace that follows it
dmy_after_day(s, de, a) == IF a >= de + 1 THEN dmy_after_space(s, a) ELSE 0

\* \s+\w{3}\s+\d{4} after the day, which ends at de
dmy_from_day(s, de) == dmy_after_day(s, de, SpaceRunEnd(s, de + 1))

\* Where \d{1,2}\s+\w{3}\s+\d{4} matches from i: its last position, or 0.
match_dmy_at(s, i) ==
    IF IsDigit(CharAt(s, i))
    THEN dmy_from_day(s, IF IsDigit(CharAt(s, i + 1)) THEN i + 1 ELSE i)
    ELSE 0

\* DATE_PATTERNS, in order: whether "Sold\s+" leads, and the order of the
\* group's day and month.
DATE_PATTERNS ==
    <<[sold |-> TRUE, form |-> "mdy"],
      [sold |-> TRUE, form |-> "dmy"],
      [sold |-> FALSE, form |-> "dmy"],
      [sold |-> FALSE, form |-> "mdy"]>>

\* Where the group of the pattern, which starts at g, ends: or 0.
group_end(form, s, g) ==
    IF form = "mdy" THEN match_mdy_at(s, g) ELSE match_dmy_at(s, g)

\* Where group 1 starts when the pattern matches from i: or 0.
group_start(pattern, s, i) ==
    IF ~pattern.sold THEN i
    ELSE IF i + 3 <= Len(s) /\ SubSeq(s, i, i + 3) = "Sold" /\ IsSpace(CharAt(s, i + 4))
         THEN SpaceRunEnd(s, i + 4) + 1
         ELSE 0

\* Group 1 of the match of the pattern from i: s[g..e], or NoneValue
group_text(s, g, e) == IF g > 0 /\ e > 0 THEN SubSeq(s, g, e) ELSE NoneValue

group_from(form, s, g) == group_text(s, g, IF g > 0 THEN group_end(form, s, g) ELSE 0)

date_match_at(pattern, s, i) == group_from(pattern.form, s, group_start(pattern, s, i))

\* pattern.search(text): group 1 of the leftmost match from i on, or NoneValue
RECURSIVE date_search_from(_, _, _)
RECURSIVE first_or_later(_, _, _, _)
first_or_later(pattern, s, i, m) ==
    IF m # NoneValue THEN m ELSE date_search_from(pattern, s, i + 1)

date_search_from(pattern, s, i) ==
    IF i > Len(s) THEN NoneValue
    ELSE first_or_later(pattern, s, i, date_match_at(pattern, s, i))

date_search(pattern, s) == date_search_from(pattern, s, 1)

\* DATE_FORMATS, in order: "%b %d, %Y", "%b %d %Y", "%d %b %Y"
DATE_FORMATS ==
    <<[form |-> "mdy", comma |-> TRUE],
      [form |-> "mdy", comma |-> FALSE],
      [form |-> "dmy", comma |-> FALSE]>>

MONTH_ABBR ==
    <<"jan", "feb", "mar", "apr", "may", "jun",
      "jul", "aug", "sep", "oct", "nov", "dec">>

\* %b: the number of the month a lower case word names, or 0
month_of(low) ==
    IF \E m \in 1..12 : MONTH_ABBR[m] = low
    THEN CHOOSE m \in 1..12 : MONTH_ABBR[m] = low
    ELSE 0

month_number(w) == month_of(str_lower(w))

IsLeap(y) == (y % 4 = 0 /\ y % 100 # 0) \/ y % 400 = 0

DaysInMonth(y, m) ==
    IF m = 2 THEN (IF IsLeap(y) THEN 29 ELSE 28)
    ELSE IF m \in {4, 6, 9, 11} THEN 30
    ELSE 31

ValueError == "<ValueError>"

TwoDigits(n) == CharAt(DIGITS, (n \div 10) + 1) \o CharAt(DIGITS, (n % 10) + 1)

\* The end of the run of characters other than whitespace that starts at i.
RECURSIVE FieldEnd(_, _)
FieldEnd(s, i) ==
    IF i <= Len(s) /\ ~IsSpace(CharAt(s, i)) THEN FieldEnd(s, i + 1) ELSE i - 1

\* The fields of s between its runs of whitespace.
RECURSIVE fields_from(_, _)
RECURSIVE field_and_rest(_, _, _)
field_and_rest(s, i, e) == <<SubSeq(s, i, e)>> \o fields_from(s, e + 1)

fields_from(s, i) ==
    IF i > Len(s) THEN <<>>
    ELSE IF IsSpace(CharAt(s, i)) THEN fields_from(s, i + 1)
    ELSE field_and_rest(s, i, FieldEnd(s, i))

\* The C library under the interpreter: whether its strftime writes %Y of a
\* year below 1000 with leading zeros. The GNU C library does not.
VARIABLE strftime_pads_year

\* str(n) for n >= 0
RECURSIVE int_str(_)
int_str(n) ==
    IF n < 10 THEN CharAt(DIGITS, n + 1)
    ELSE int_str(n \div 10) \o CharAt(DIGITS, (n % 10) + 1)

\* strftime's %Y of year y, read from the four digits ytext.
year_text(ytext, y) == IF strftime_pads_year THEN ytext ELSE int_str(y)

\* The date of year y (four digits, as read), month m and day d, or ValueError.
iso_date(ytext, y, m, d) ==
    IF y < 1 \/ m < 1 \/ d < 1 \/ d > DaysInMonth(y, m) THEN ValueError
    ELSE year_text(ytext, y) \o "-" \o TwoDigits(m) \o "-" \o TwoDigits(d)

\* %d: one or two digits, from 1 to 31; 0 for any other text
day_number(dtext) ==
    IF Len(dtext) \in {1, 2} /\ AllDigits(dtext) /\ DecimalValue(dtext) <= 31
    THEN DecimalValue(dtext) ELSE 0

\* The fields %b, %d and %Y matched, as texts.
date_of_fields(b, dtext, ytext) ==
    IF Len(ytext) = 4 /\ AllDigits(ytext)
    THEN iso_date(ytext, DecimalValue(ytext), month_number(b), day_number(dtext))
    ELSE ValueError

\* The day field of "%d," is followed by its comma, that of "%d" is not.
day_text(field, comma) ==
    IF ~comma THEN field
    ELSE IF field # "" /\ CharAt(field, Len(field)) = ","
         THEN SubSeq(field, 1, Len(field) - 1)
         ELSE ""

strptime_fields(fs, fmt) ==
    IF Len(fs) # 3 THEN ValueError
    ELSE IF fmt.form = "mdy"
         THEN date_of_fields(fs[1], day_text(fs[2], fmt.comma), fs[3])
         ELSE date_of_fields(fs[2], day_text(fs[1], fmt.comma), fs[3])

\* datetime.strptime(raw, fmt).strftime("%Y-%m-%d"), or ValueError: the format's
\* blanks match runs of whitespace, and the whole of raw must be matched.
strptime_iso(raw, fmt) ==
    IF raw = "" \/ IsSpace(CharAt(raw, 1)) \/ IsSpace(CharAt(raw, Len(raw)))
    THEN ValueError
    ELSE strptime_fields(fields_from(raw, 1), fmt)

RECURSIVE try_formats(_, _)
RECURSIVE parsed_or_next_format(_, _, _)
parsed_or_next_format(raw, k, r) ==
    IF r # ValueError THEN r ELSE try_formats(raw, k + 1)

try_formats(raw, k) ==
    IF k > Len(DATE_FORMATS) THEN ""
    ELSE parsed_or_next_format(raw, k, strptime_iso(raw, DATE_FORMATS[k]))

\* What the body of "if m:" returns, "" when it returns nothing.
date_of_match(m) ==
    IF m = NoneValue THEN "" ELSE try_formats(remove_commas(str_strip(m)), 1)

RECURSIVE try_patterns(_, _)
RECURSIVE date_or_next_pattern(_, _, _)
date_or_next_pattern(text, k, r) ==
    IF r # "" THEN r ELSE try_patterns(text, k + 1)

try_patterns(text, k) ==
    IF k > Len(DATE_PATTERNS) THEN ""
    ELSE date_or_next_pattern(text, k, date_of_match(date_search(DATE_PATTERNS[k], text)))

parse_date(text) == try_patterns(text, 1)

\* ------------------------------------------------------------------------
\* The live driver's page parser
\* ------------------------------------------------------------------------

\* A result card (li.s-card) is modelled by the text of the elements the
\* parser selects in it, NoneValue for an element that is absent:
\*   [title_el, price_el, caption]
\* and a legacy item (li.s-item) by
\*   [title_el, price_el, caption, ended_date, detail].
\* get_text() of the whole card is the text of its elements, in this order.
Card(title_el, price_el, caption) ==
    [title_el |-> title_el, price_el |-> price_el, caption |-> caption]

Item(title_el, price_el, caption, ended_date, detail) ==
    [title_el |-> title_el, price_el |-> price_el, caption |-> caption,
     ended_date |-> ended_date, detail |-> detail]

ElText(el) == IF el = NoneValue THEN "" ELSE el

card_get_text(card) ==
    ElText(card.title_el) \o ElText(card.price_el) \o ElText(card.caption)

item_get_text(item) ==
    ElText(item.title_el) \o ElText(item.price_el) \o ElText(item.caption)
    \o ElText(item.ended_date) \o ElText(item.detail)

\* The test both loops make on the cleaned title before the filter.
title_usable(title) == title # "" /\ ~Contains("shop on ebay", str_lower(title))

\* if is_excluded(...): continue / if not is_relevant(...): continue
live_filter(title, family) ==
    IF is_excluded(title, family) THEN FALSE
    ELSE IF ~is_relevant(title, family) THEN FALSE
    ELSE TRUE

\* if price < min_price or price > 5000.0: continue
price_in_range(price, min_price) == ~(price < min_price \/ price > PRICE_CEILING)

\* The date of a card: the caption's, else the whole card's.
card_date(card) ==
    LET date_str == IF card.caption # NoneValue THEN parse_date(card.caption) ELSE ""
    IN  IF date_str = "" THEN parse_date(card_get_text(card)) ELSE date_str

\* The date of a legacy item: the first of caption, ended-date and detail
\* that parses, else the whole item's.
item_date(item) ==
    LET els == <<item.caption, item.ended_date, item.detail>>
        dates == [k \in 1..3 |-> IF els[k] # NoneValue THEN parse_date(els[k]) ELSE ""]
        date_str == IF \E k \in 1..3 : dates[k] # ""
                    THEN dates[CHOOSE k \in 1..3 :
                                  dates[k] # "" /\ \A j \in 1..(k - 1) : dates[j] = ""]
                    ELSE ""
    IN  IF date_str = "" THEN parse_date(item_get_text(item)) ELSE date_str

\* One pass of either loop of parse_listings: the listings it appends (none
\* or one). date_str is computed only when the listing is kept.
parse_entry(el, legacy, site, query, family_id, family, min_price) ==
    IF el.title_el = NoneValue THEN <<>>
    ELSE LET title == clean_title(str_strip(el.title_el))
         IN  IF ~title_usable(title) THEN <<>>
             ELSE IF ~live_filter(title, family) THEN <<>>
             ELSE IF el.price_el = NoneValue THEN <<>>
             ELSE LET parsed == parse_price(str_strip(el.price_el))
                  IN  IF parsed = NoParse THEN <<>>
                      ELSE IF ~price_in_range(parsed[1], min_price) THEN <<>>
                      ELSE <<SoldListing(family_id, title, parsed[1],
                                         parsed[2],
                                         IF legacy THEN item_date(el) ELSE card_date(el),
                                         site, query)>>

\* A loop that ends, instead of going on to the next entry, at an entry whose
\* price text does not parse.
RECURSIVE parse_entries_until_unpriced(_, _, _, _, _, _, _)
parse_entries_until_unpriced(els, legacy, site, query, family_id, family, min_price) ==
    IF els = <<>> THEN <<>>
    ELSE IF /\ Head(els).title_el # NoneValue
            /\ title_usable(clean_title(str_strip(Head(els).title_el)))
            /\ live_filter(clean_title(str_strip(Head(els).title_el)), family)
            /\ Head(els).price_el # NoneValue
            /\ parse_price(str_strip(Head(els).price_el)) = NoParse
         THEN <<>>
    ELSE parse_entry(Head(els), legacy, site, query, family_id, family, min_price)
         \o parse_entries_until_unpriced(Tail(els), legacy, site, query, family_id,
                                         family, min_price)

RECURSIVE parse_entries(_, _, _, _, _, _, _)
parse_entries(els, legacy, site, query, family_id, family, min_price) ==
    IF els = <<>> THEN <<>>
    ELSE parse_entry(Head(els), legacy, site, query, family_id, family, min_price)
         \o parse_entries(Tail(els), legacy, site, query, family_id, family, min_price)

\* html is modelled by [cards, items]: its li.s-card and its li.s-item elements.
parse_listings(html, site, query, family_id, family, min_price) ==
    parse_entries(html.cards, FALSE, site, query, family_id, family, min_price)
    \o parse_entries(html.items, TRUE, site, query, family_id, family, min_price)

\* ------------------------------------------------------------------------
\* CSV output and the re-processing driver's loader
\* ------------------------------------------------------------------------

\* f"{price:.0f}"-like: a price written without its fractional digits.
format_price_whole(price) == int_str(price \div 100)

\* f"{price:.2f}" of a price held in hundredths
format_price(price) == int_str(price \div 100) \o "." \o TwoDigits(price % 100)

csv_row(item) ==
    [chip_family |-> item.chip_family, title |-> item.title,
     price |-> format_price(item.price), currency |-> item.currency,
     date_sold |-> item.date_sold, ebay_site |-> item.ebay_site,
     search_query |-> item.search_query]

\* The rows write_csv writes, after the header.
write_csv(listings) == [k \in 1..Len(listings) |-> csv_row(listings[k])]

\* float(text), in hundredths
float_of(text) == amount_value(text)

\* The loop of load_and_filter from row k on: [raised, raw], the listings
\* kept, raised when float() raises ValueError on a row that passed the
\* filters.
\* A loop that looks the family up without asking whether the catalog has
\* it: the KeyError ends the load.
RECURSIVE load_rows_unchecked(_, _, _)
load_rows_unchecked(rows, k, raw) ==
    IF k > Len(rows) THEN [raised |-> FALSE, raw |-> raw]
    ELSE IF rows[k].chip_family \notin DOMAIN CHIP_FAMILIES THEN [raised |-> TRUE, raw |-> raw]
    ELSE IF ~is_relevant(rows[k].title, CHIP_FAMILIES[rows[k].chip_family])
         THEN load_rows_unchecked(rows, k + 1, raw)
    ELSE IF is_excluded(rows[k].title, CHIP_FAMILIES[rows[k].chip_family])
         THEN load_rows_unchecked(rows, k + 1, raw)
    ELSE IF ~float_parses(rows[k].price) THEN [raised |-> TRUE, raw |-> raw]
    ELSE load_rows_unchecked(rows, k + 1,
            Append(raw, SoldListing(rows[k].chip_family, rows[k].title,
                float_of(rows[k].price), rows[k].currency, rows[k].date_sold,
                rows[k].ebay_site, rows[k].search_query)))

RECURSIVE load_rows(_, _, _)
load_rows(rows, k, raw) ==
    IF k > Len(rows) THEN [raised |-> FALSE, raw |-> raw]
    ELSE LET row == rows[k]
             fam_id == row.chip_family
         IN  IF fam_id \notin DOMAIN CHIP_FAMILIES THEN load_rows(rows, k + 1, raw)
             ELSE LET family == CHIP_FAMILIES[fam_id]
                  IN  IF ~is_relevant(row.title, family) THEN load_rows(rows, k + 1, raw)
                      ELSE IF is_excluded(row.title, family) THEN load_rows(rows, k + 1, raw)
                      ELSE IF ~float_parses(row.price) THEN [raised |-> TRUE, raw |-> raw]
                      ELSE load_rows(rows, k + 1,
                               Append(raw, SoldListing(fam_id, row.title,
                                   float_of(row.price), row.currency, row.date_sold,
                                   row.ebay_site, row.search_query)))

\* [raised, unique]: the listings load_and_filter returns, unless it raised.
load_and_filter(rows) ==
    LET loaded == load_rows(rows, 1, <<>>)
    IN  [raised |-> loaded.raised,
         unique |-> IF loaded.raised THEN <<>> ELSE dedup_listings(loaded.raw)]

\* ------------------------------------------------------------------------
\* Summaries
\* ------------------------------------------------------------------------

\* The characters of site identifiers and ISO dates, in code point order,
\* for comparing such strings.
ASCII_ORDER == " -.0123456789ABCDEFGHIJKLMNOPQRSTUVWXYZ_abcdefghijklmnopqrstuvwxyz"

CharRank(c) ==
    IF \E i \in 1..Len(ASCII_ORDER) : CharAt(ASCII_ORDER, i) = c
    THEN CHOOSE i \in 1..Len(ASCII_ORDER) : CharAt(ASCII_ORDER, i) = c
    ELSE Len(ASCII_ORDER) + 1

\* a < b on strings
RECURSIVE str_less(_, _)
str_less(a, b) ==
    IF b = "" THEN FALSE
    ELSE IF a = "" THEN TRUE
    ELSE IF CharAt(a, 1) = CharAt(b, 1) THEN str_less(Tail(a), Tail(b))
    ELSE CharRank(CharAt(a, 1)) < CharRank(CharAt(b, 1))

\* sorted(S) of a set of strings
RECURSIVE sorted_strings(_)
sorted_strings(S) ==
    IF S = {} THEN <<>>
    ELSE LET m == CHOOSE x \in S : \A y \in S \ {x} : str_less(x, y)
         IN  <<m>> \o sorted_strings(S \ {m})

items_of_site(listings, site) ==
    SelectSeq(listings, LAMBDA item : item.ebay_site = site)

items_of_family(listings, fam_id) ==
    SelectSeq(listings, LAMBDA item : item.chip_family = fam_id)

\* variant_groups[label]
items_of_variant(fam_items, label) ==
    SelectSeq(fam_items, LAMBDA item : variant_label(item) = label)

\* "By eBay site": one line per site, in the order of sorted(by_site.items())
by_site_lines(listings) ==
    LET sites == sorted_strings({listings[k].ebay_site : k \in 1..Len(listings)})
    IN  [k \in 1..Len(sites) |->
            LET items == items_of_site(listings, sites[k])
            IN  [site |-> sites[k], currency |-> items[1].currency,
                 stats |-> _calc_stats(items)]]

\* The labels of the rules that have a group, and "(all)": a summary that
\* leaves the "other/mixed" group out.
labels_in_order_without_other(family, fam_items) ==
    LET in_groups(label) == \E k \in 1..Len(fam_items) : variant_label(fam_items[k]) = label
        rule_labels == [k \in 1..Len(family.variant_rules) |-> family.variant_rules[k].label]
    IN  SelectSeq(rule_labels, in_groups)
        \o (IF in_groups("(all)") THEN <<"(all)">> ELSE <<>>)

\* The labels of a family's non-empty variant groups: in rule order, then
\* "(all)", then "other/mixed".
labels_in_order(family, fam_items) ==
    LET in_groups(label) == \E k \in 1..Len(fam_items) : variant_label(fam_items[k]) = label
        rule_labels == [k \in 1..Len(family.variant_rules) |-> family.variant_rules[k].label]
    IN  SelectSeq(rule_labels, in_groups)
        \o (IF in_groups("(all)") THEN <<"(all)">> ELSE <<>>)
        \o (IF in_groups("other/mixed") THEN <<"other/mixed">> ELSE <<>>)

\* The lines of one family: a line per variant, and a subtotal line when
\* there are several.
family_lines(fam_id, fam_items, subtotal_label) ==
    LET family == CHIP_FAMILIES[fam_id]
        labels == labels_in_order(family, fam_items)
    IN  [k \in 1..Len(labels) |->
            [chip_family |-> fam_id, chip_name |-> family.name,
             variant |-> labels[k], package |-> _detect_package(labels[k]),
             stats |-> _calc_stats(items_of_variant(fam_items, labels[k]))]]
        \o (IF Len(labels) > 1
            THEN <<[chip_family |-> fam_id, chip_name |-> family.name,
                    variant |-> subtotal_label, package |-> "",
                    stats |-> _calc_stats(fam_items)]>>
            ELSE <<>>)

\* for fam_id in CHIP_FAMILIES: ... from the k-th family on
RECURSIVE variant_lines(_, _, _)
variant_lines(listings, k, subtotal_label) ==
    IF k > Len(FAMILY_IDS) THEN <<>>
    ELSE LET fam_items == items_of_family(listings, FAMILY_IDS[k])
         IN  (IF fam_items = <<>> THEN <<>>
              ELSE family_lines(FAMILY_IDS[k], fam_items, subtotal_label))
             \o variant_lines(listings, k + 1, subtotal_label)

\* The rows write_summary_csv writes, after the header. A row holds the
\* statistics themselves; the file holds them rendered with two decimals.
write_summary_csv(listings) ==
    variant_lines(listings, 1, "SUBTOTAL")
    \o <<[chip_family |-> "", chip_name |-> "TOTAL", variant |-> "", package |-> "",
          stats |-> _calc_stats(listings)]>>

\* "Date range": first and last of the sorted non-empty dates, and their number
date_range(listings) ==
    LET dated == SelectSeq(listings, LAMBDA item : item.date_sold # "")
        dates == sorted_strings({dated[k].date_sold : k \in 1..Len(dated)})
    IN  IF dated # <<>>
        THEN [from |-> dates[1], to |-> dates[Len(dates)], dated |-> Len(dated)]
        ELSE [dated |-> 0]

\* "Price distribution" for four prices or more, else the prices themselves
price_distribution(listings) ==
    LET all_prices == sorted([k \in 1..Len(listings) |-> listings[k].price])
        n == Len(all_prices)
    IN  IF n >= 4
        THEN [min |-> all_prices[1], q1 |-> Index0(all_prices, n \div 4),
              median |-> Index0(all_prices, n \div 2),
              q3 |-> Index0(all_prices, (3 * n) \div 4), max |-> all_prices[n]]
        ELSE [prices |-> all_prices]

\* A print_summary without its first test, "if not listings: ... return".
print_summary_always(listings) ==
    [unique |-> Len(listings),
     by_site |-> by_site_lines(listings),
     variants |-> variant_lines(listings, 1, "--- subtotal ---"),
     total |-> _calc_stats(listings),
     date_range |-> date_range(listings),
     distribution |-> price_distribution(listings)]

\* What print_summary prints.
print_summary(listings) ==
    IF listings = <<>> THEN [text |-> "No listings found."]
    ELSE [unique |-> Len(listings),
          by_site |-> by_site_lines(listings),
          variants |-> variant_lines(listings, 1, "--- subtotal ---"),
          total |-> _calc_stats(listings),
          date_range |-> date_range(listings),
          distribution |-> price_distribution(listings)]

\* ------------------------------------------------------------------------
\* The two drivers as a state machine
\* ------------------------------------------------------------------------

VARIABLES
    driver,        \* "live": retro_ic_scraper.py's main; "reprocess": summarise.py's
    args,          \* the live driver's parsed arguments
    work,          \* the live driver's work list
    i,             \* the position in the work list
    fetched,       \* what fetch_page returned for each work item so far
    all_listings,  \* the listings gathered before deduplication
    csv_in,        \* the rows of the file the re-processing driver reads
    unique,        \* the deduplicated listings
    csv_out,       \* the rows written by write_csv
    summary_rows,  \* the rows written by write_summary_csv
    report,        \* what print_summary printed
    pc             \* where the driver is

\* A call of fetch_page
VARIABLES
    retries,       \* its argument
    navigations,   \* what each attempt made so far met
    returned       \* what it returned

fetch_page_vars == <<retries, navigations, returned>>

vars == <<strftime_pads_year, fetch_page_vars, driver, args, work, i, fetched, all_listings,
          csv_in, unique, csv_out, summary_rows, report, pc>>

\* def fetch_page(page, url, retries=3)
DEFAULT_RETRIES == 3

\* fetch_page has not returned.
Pending == [pending |-> TRUE]

\* No call of fetch_page is followed attempt by attempt: the drivers below
\* take what a call returns in one step.
NoFetchPageCall ==
    /\ retries = DEFAULT_RETRIES
    /\ navigations = <<>>
    /\ returned = Pending

\* All sequences over S of length at most n.
SeqsUpTo(S, n) == UNION {[1..k -> S] : k \in 0..n}

RECURSIVE Flatten(_)
Flatten(seqs) == IF seqs = <<>> THEN <<>> ELSE Head(seqs) \o Flatten(Tail(seqs))

\* resolve_families, for known names
resolve_families(chip_args) ==
    IF \E k \in 1..Len(chip_args) : chip_args[k] = "all"
    THEN SelectSeq(FAMILY_IDS, LAMBDA fid : fid # "discover")
    ELSE chip_args

\* The work list of main: (fam_id, query, site, page), families outermost.
\* Of each family's queries the first MaxQueries are taken.
build_work(a) ==
    LET families == resolve_families(a.chips)
        of_query(fam_id, query) ==
            Flatten([s \in 1..Len(a.sites) |->
                [pg \in 1..a.pages |->
                    [fam_id |-> fam_id, query |-> query, site |-> a.sites[s], pg |-> pg]]])
        of_family(fam_id) ==
            LET queries == CHIP_FAMILIES[fam_id].queries
                n == IF Len(queries) < MaxQueries THEN Len(queries) ELSE MaxQueries
            IN  Flatten([q \in 1..n |-> of_query(fam_id, queries[q])])
    IN  Flatten([f \in 1..Len(families) |-> of_family(families[f])])

\* The command lines of the live driver that are run.
ArgChoices ==
    {[chips |-> c, pages |-> 1, min_price |-> m, sites |-> <<"com">>] :
        c \in {<<"sid">>, <<"ym2151">>}, m \in {DEFAULT_MIN_PRICE, 1500}}

SOLD_CAPTION == "Sold Jan 5, 2024"

\* The result cards a fetched page is made of.
CardChoices ==
    {Card("MOS 6581 SID", "$10.00", SOLD_CAPTION),
     Card("New listing MOS  6581 SID", "$10.00", SOLD_CAPTION),
     Card("MOS 8580 SID chip", (POUND \o "20.00"), "Buy now"),
     Card("SID chip Commodore 64", "$15.00", NoneValue),
     Card("FPGASID 6581 replacement board", "$30.00", SOLD_CAPTION),
     Card("Yamaha motorcycle part", "$10.00", SOLD_CAPTION),
     Card("Yamaha YM2151 OPM", "$12.50", SOLD_CAPTION),
     Card("MOS 6581 SID", "Free", SOLD_CAPTION),
     Card("MOS 6581 SID", "$6,000.00", SOLD_CAPTION),
     Card("MOS 6581 SID", "$0.99", SOLD_CAPTION),
     Card("Shop on eBay", "$20.00", SOLD_CAPTION),
     Card(NoneValue, "$10.00", SOLD_CAPTION),
     Card("MOS 6581 SID", NoneValue, SOLD_CAPTION)}

\* The legacy items a fetched page is made of.
ItemChoices ==
    {Item("MOS 6581 SID", "$10.00", NoneValue, "Sold 5 Jan 2024", NoneValue),
     Item("MOS 8580 SID chip", (POUND \o "20.00"), "Buy now", NoneValue, "no date"),
     Item("YM2151 OPM", "$1,234.5", NoneValue, NoneValue, NoneValue),
     Item("MOS 6581 SID", "Free", SOLD_CAPTION, NoneValue, NoneValue)}

\* fetch_page's None
NoPage == [none |-> TRUE]

IsPage(html) == html # NoPage

\* The pages of at most n cards and items.
Pages(n) ==
    {[cards |-> c, items |-> t] :
        <<c, t>> \in {ct \in SeqsUpTo(CardChoices, n) \X SeqsUpTo(ItemChoices, n) :
                        Len(ct[1]) + Len(ct[2]) <= n}}

page_size(html) == IF IsPage(html) THEN Len(html.cards) + Len(html.items) ELSE 0

RECURSIVE cards_fetched(_)
cards_fetched(pages) ==
    IF pages = <<>> THEN 0 ELSE page_size(Head(pages)) + cards_fetched(Tail(pages))

CsvRow(chip_family, title, price, currency, date_sold, ebay_site, search_query) ==
    [chip_family |-> chip_family, title |-> title, price |-> price,
     currency |-> currency, date_sold |-> date_sold, ebay_site |-> ebay_site,
     search_query |-> search_query]

\* The rows the re-processed file is made of.
RowChoices ==
    {CsvRow("sid", "MOS 6581 SID", "10.00", "USD", "2024-01-05", "com", "MOS 6581 SID"),
     CsvRow("sid", "MOS 6581 SID", "10.00", "USD", "2024-01-05", "com", "6581 sound chip"),
     CsvRow("sid", "MOS 8580 SID chip", "20.00", "GBP", "", "co.uk", "MOS 8580 SID"),
     CsvRow("sid", "SwinSID 6581 Nano", "30.00", "USD", "2024-01-05", "com", "MOS 6581 SID"),
     CsvRow("sid", "Yamaha motorcycle part", "10.00", "USD", "", "com", "SID chip Commodore 64"),
     CsvRow("sid", "MOS 6581 SID", "n/a", "USD", "2024-01-05", "com", "MOS 6581 SID"),
     CsvRow("ym2151", "Yamaha YM2151 OPM", "6000.00", "USD", "2024-01-05", "com", "YM2151 OPM"),
     CsvRow("denise", "Amiga Denise 8373 391081 PLCC", "40.00", "EUR", "2023-12-31", "de", "Super Denise"),
     CsvRow("tia", "Atari TIA chip", "15.00", "USD", "2024-01-05", "com", "Atari TIA"),
     CsvRow("tia", "Atari TIA chip", "", "USD", "", "com", "Atari TIA")}

NoArgs == [chips |-> <<>>, pages |-> 0, min_price |-> 0, sites |-> <<>>]

NoReport == [printed |-> FALSE]

InitLive ==
    /\ strftime_pads_year \in BOOLEAN
    /\ NoFetchPageCall
    /\ driver = "live"
    /\ args \in ArgChoices
    /\ work = build_work(args)
    /\ i = 1
    /\ fetched = <<>>
    /\ all_listings = <<>>
    /\ csv_in = <<>>
    /\ unique = <<>>
    /\ csv_out = <<>>
    /\ summary_rows = <<>>
    /\ report = NoReport
    /\ pc = "scrape"

\* The re-processing driver started on one of the given files. It formats no
\* date, and is run where the live driver usually is, on the GNU C library.
ReprocessStart(files) ==
    /\ strftime_pads_year = FALSE
    /\ NoFetchPageCall
    /\ driver = "reprocess"
    /\ args = NoArgs
    /\ work = <<>>
    /\ i = 1
    /\ fetched = <<>>
    /\ all_listings = <<>>
    /\ csv_in \in files
    /\ unique = <<>>
    /\ csv_out = <<>>
    /\ summary_rows = <<>>
    /\ report = NoReport
    /\ pc = "load"

InitReprocess == ReprocessStart(SeqsUpTo(RowChoices, MaxRows))

Init == InitLive \/ InitReprocess

\* One pass of main's loop over the work list: fetch_page, and parse_listings
\* of the page unless fetch_page gave None.
ScrapeFrom(htmls) ==
    /\ driver = "live"
    /\ pc = "scrape"
    /\ i <= Len(work)
    /\ \E html \in htmls :
          /\ fetched' = Append(fetched, html)
          /\ all_listings' =
                IF IsPage(html)
                THEN all_listings
                     \o parse_listings(html, work[i].site, work[i].query, work[i].fam_id,
                                       CHIP_FAMILIES[work[i].fam_id], args.min_price)
                ELSE all_listings
    /\ i' = i + 1
    /\ UNCHANGED <<strftime_pads_year, fetch_page_vars, driver, args, work, csv_in, unique, csv_out, summary_rows, report, pc>>

\* fetch_page gives None or a page of result cards and legacy items, of which
\* a run sees at most MaxCards.
ScrapePage == ScrapeFrom({NoPage} \cup Pages(MaxCards - cards_fetched(fetched)))

\* unique = dedup_listings(all_listings)
MainDedup ==
    /\ driver = "live"
    /\ pc = "scrape"
    /\ i > Len(work)
    /\ unique' = dedup_listings(all_listings)
    /\ pc' = "write_csv"
    /\ UNCHANGED <<strftime_pads_year, fetch_page_vars, driver, args, work, i, fetched, all_listings, csv_in, csv_out,
                   summary_rows, report>>

\* write_csv(unique, args.output)
MainWriteCsv ==
    /\ pc = "write_csv"
    /\ csv_out' = write_csv(unique)
    /\ pc' = "print_summary"
    /\ UNCHANGED <<strftime_pads_year, fetch_page_vars, driver, args, work, i, fetched, all_listings, csv_in, unique,
                   summary_rows, report>>

\* print_summary(unique), the last call of both drivers
PrintSummary ==
    /\ pc = "print_summary"
    /\ report' = print_summary(unique)
    /\ pc' = "done"
    /\ UNCHANGED <<strftime_pads_year, fetch_page_vars, driver, args, work, i, fetched, all_listings, csv_in, unique,
                   csv_out, summary_rows>>

\* listings = load_and_filter(args.input)
LoadAndFilter ==
    /\ driver = "reprocess"
    /\ pc = "load"
    /\ LET loaded == load_rows(csv_in, 1, <<>>)
           result == load_and_filter(csv_in)
       IN  /\ all_listings' = loaded.raw
           /\ unique' = result.unique
           /\ pc' = IF result.raised THEN "raised" ELSE "loaded"
    /\ UNCHANGED <<strftime_pads_year, fetch_page_vars, driver, args, work, i, fetched, csv_in, csv_out, summary_rows, report>>

\* if not listings: raise SystemExit(1)
SummariseExit ==
    /\ pc = "loaded"
    /\ unique = <<>>
    /\ pc' = "exit"
    /\ UNCHANGED <<strftime_pads_year, fetch_page_vars, driver, args, work, i, fetched, all_listings, csv_in, unique,
                   csv_out, summary_rows, report>>

\* write_summary_csv(listings, args.output)
WriteSummaryCsv ==
    /\ pc = "loaded"
    /\ unique # <<>>
    /\ summary_rows' = write_summary_csv(unique)
    /\ pc' = "print_summary"
    /\ UNCHANGED <<strftime_pads_year, fetch_page_vars, driver, args, work, i, fetched, all_listings, csv_in, unique,
                   csv_out, report>>

Next ==
    \/ ScrapePage
    \/ MainDedup
    \/ MainWriteCsv
    \/ PrintSummary
    \/ LoadAndFilter
    \/ SummariseExit
    \/ WriteSummaryCsv

Spec == Init /\ [][Next]_vars

\* The steps of the re-processing driver alone.
NextReprocess ==
    \/ LoadAndFilter
    \/ SummariseExit
    \/ WriteSummaryCsv
    \/ PrintSummary

\* The re-processing driver on the files of at most MaxRows rows.
SpecReprocess == InitReprocess /\ [][NextReprocess]_vars

\* ------------------------------------------------------------------------
\* The deduplicator on files of records that pass the filter
\* ------------------------------------------------------------------------

\* The rows of the file read.
MaxListings == 3

\* One record, and records that differ from it in one column. The second
\* differs in the text of the price only, not in its value.
DedupRows ==
    {CsvRow("sid", "MOS 6581 SID", "10.00", "USD", "2024-01-05", "com", "MOS 6581 SID"),
     CsvRow("sid", "MOS 6581 SID", "10.0", "USD", "2024-01-05", "com", "MOS 6581 SID"),
     CsvRow("discover", "MOS 6581 SID", "10.00", "USD", "2024-01-05", "com", "MOS 6581 SID"),
     CsvRow("sid", "MOS 8580 SID", "10.00", "USD", "2024-01-05", "com", "MOS 6581 SID"),
     CsvRow("sid", "MOS 6581 SID", "20.00", "USD", "2024-01-05", "com", "MOS 6581 SID"),
     CsvRow("sid", "MOS 6581 SID", "10.00", "GBP", "2024-01-05", "com", "MOS 6581 SID"),
     CsvRow("sid", "MOS 6581 SID", "10.00", "USD", "", "com", "MOS 6581 SID"),
     CsvRow("sid", "MOS 6581 SID", "10.00", "USD", "2024-01-05", "co.uk", "MOS 6581 SID"),
     CsvRow("sid", "MOS 6581 SID", "10.00", "USD", "2024-01-05", "com", "6581 sound chip")}

InitDedup == ReprocessStart(SeqsUpTo(DedupRows, MaxListings))

SpecDedup == InitDedup /\ [][NextReprocess]_vars

\* The identity key of a record, column by column.
IdentityKey(r) == <<r.chip_family, r.title, r.price, r.date_sold, r.ebay_site>>

\* The positions of xs that hold the first occurrence of their key.
FirstOccurrences(xs) ==
    {k \in 1..Len(xs) : \A j \in 1..(k - 1) : IdentityKey(xs[j]) # IdentityKey(xs[k])}

\* The subsequence of xs at the positions of P.
RECURSIVE SubsequenceAt(_, _, _)
SubsequenceAt(xs, P, k) ==
    IF k > Len(xs) THEN <<>>
    ELSE (IF k \in P THEN <<xs[k]>> ELSE <<>>) \o SubsequenceAt(xs, P, k + 1)

\* Whether the deduplicator has run on the records loaded.
Deduplicated == pc \in {"loaded", "print_summary", "done", "exit"}

\* C1: dedup_listings returns exactly the subsequence of its input made of
\* the first occurrence of each identity key (chip_family, title, price,
\* date_sold, ebay_site), in input order: no two output records share a key,
\* every input key is in the output, and records that differ in search_query
\* or currency only collapse to the first of them.
C1_DedupFirstOccurrence ==
    Deduplicated =>
        /\ unique = SubsequenceAt(all_listings, FirstOccurrences(all_listings), 1)
        /\ \A j, k \in 1..Len(unique) :
              IdentityKey(unique[j]) = IdentityKey(unique[k]) => j = k
        /\ \A k \in 1..Len(all_listings) :
              \E j \in 1..Len(unique) :
                 /\ IdentityKey(unique[j]) = IdentityKey(all_listings[k])
                 /\ \A m \in 1..k :
                       IdentityKey(all_listings[m]) = IdentityKey(all_listings[k])
                       => /\ unique[j].search_query = all_listings[
                                CHOOSE f \in 1..k :
                                   /\ IdentityKey(all_listings[f]) = IdentityKey(all_listings[k])
                                   /\ \A g \in 1..(f - 1) :
                                         IdentityKey(all_listings[g]) # IdentityKey(all_listings[k])
                             ].search_query
                          /\ unique[j].currency = all_listings[
                                CHOOSE f \in 1..k :
                                   /\ IdentityKey(all_listings[f]) = IdentityKey(all_listings[k])
                                   /\ \A g \in 1..(f - 1) :
                                         IdentityKey(all_listings[g]) # IdentityKey(all_listings[k])
                             ].currency

\* Three records were loaded, the second a record of another key, and the
\* third differs from the first in search_query only: two are kept, and the
\* first one's search_query with them.
C1_Witness ==
    /\ Deduplicated
    /\ Len(all_listings) = 3
    /\ IdentityKey(all_listings[1]) # IdentityKey(all_listings[2])
    /\ IdentityKey(all_listings[1]) = IdentityKey(all_listings[3])
    /\ all_listings[1].search_query # all_listings[3].search_query
    /\ unique = <<all_listings[1], all_listings[2]>>

\* C7: dedup_listings is idempotent: applied to its own result it returns
\* that result, the same records in the same order.
C7_DedupIdempotent ==
    Deduplicated => dedup_listings(unique) = unique

\* A key occurred three times among the records loaded, and one record is
\* left, which a second deduplication leaves as it is.
C7_Witness ==
    /\ Deduplicated
    /\ Len(all_listings) = 3
    /\ IdentityKey(all_listings[1]) = IdentityKey(all_listings[2])
    /\ IdentityKey(all_listings[1]) = IdentityKey(all_listings[3])
    /\ Len(unique) = 1
    /\ dedup_listings(unique) = unique

\* ------------------------------------------------------------------------
\* The classifier on files of one record
\* ------------------------------------------------------------------------

\* The fragments a title is made of.
MaxFrags == 2

TitleFrags == {"SID", "6581", "8580", "8373", "PLCC", "8362", "8372", "8375", "YM2151"}

\* The titles of n fragments, a blank between two.
RECURSIVE TitlesOf(_)
TitlesOf(n) ==
    IF n = 1 THEN TitleFrags
    ELSE {f \o " " \o t : f \in TitleFrags, t \in TitlesOf(n - 1)}

ClassifyTitles == UNION {TitlesOf(n) : n \in 1..MaxFrags}

\* Families with several rules, with excluding rules, and with no rule.
ClassifyFamilies == {"sid", "denise", "agnus", "ym2151", "ym2612", "discover"}

ClassifyRows ==
    {CsvRow(fam_id, t, "10.00", "USD", "2024-01-05", "com", CHIP_FAMILIES[fam_id].queries[1]) :
        fam_id \in ClassifyFamilies, t \in ClassifyTitles}

InitClassify == ReprocessStart(SeqsUpTo(ClassifyRows, 1))

SpecClassify == InitClassify /\ [][NextReprocess]_vars

\* A rule applies to a title: one of its include substrings, and none of its
\* exclude substrings, occurs in the lowercased title.
RuleApplies(title, rule) ==
    /\ \E n \in 1..Len(rule.include) : Contains(rule.include[n], str_lower(title))
    /\ ~\E n \in 1..Len(rule.exclude) : Contains(rule.exclude[n], str_lower(title))

\* The label of the first rule, in declaration order, that applies.
FirstRuleLabel(title, rules) ==
    IF \E k \in 1..Len(rules) : RuleApplies(title, rules[k])
    THEN rules[CHOOSE k \in 1..Len(rules) :
                  /\ RuleApplies(title, rules[k])
                  /\ \A j \in 1..(k - 1) : ~RuleApplies(title, rules[j])].label
    ELSE "other/mixed"

RulesOf(item) == CHIP_FAMILIES[item.chip_family].variant_rules

\* The lines of a summary that stand for a variant of a family.
VariantLinesOf(lines, fam_id) ==
    SelectSeq(lines, LAMBDA line :
        line.chip_family = fam_id /\ line.variant \notin {"SUBTOTAL", "--- subtotal ---"})

\* The label under which a summary counts the only record of its family.
LabelGiven(lines, item) == VariantLinesOf(lines, item.chip_family)[1].variant

Summarised == pc = "done" /\ Len(unique) = 1

\* C2: the rules are evaluated in declaration order, and the label is that of
\* the first rule of which an include substring and no exclude substring
\* occurs in the lowercased title, also when a later rule applies too; when
\* the list is not empty and no rule applies, the label is "other/mixed".
C2_FirstMatchingRule ==
    (Summarised /\ RulesOf(unique[1]) # <<>>) =>
        /\ classify_variant(unique[1].title, RulesOf(unique[1]))
              = FirstRuleLabel(unique[1].title, RulesOf(unique[1]))
        /\ LabelGiven(report.variants, unique[1])
              = FirstRuleLabel(unique[1].title, RulesOf(unique[1]))
        /\ LabelGiven(summary_rows, unique[1])
              = FirstRuleLabel(unique[1].title, RulesOf(unique[1]))

\* Two rules apply to the title of the record, and the summary counts it
\* under the label of the earlier one.
C2_Witness ==
    /\ Summarised
    /\ \E j, k \in 1..Len(RulesOf(unique[1])) :
          /\ j < k
          /\ RuleApplies(unique[1].title, RulesOf(unique[1])[j])
          /\ RuleApplies(unique[1].title, RulesOf(unique[1])[k])
          /\ \A m \in 1..(j - 1) : ~RuleApplies(unique[1].title, RulesOf(unique[1])[m])
          /\ LabelGiven(report.variants, unique[1]) = RulesOf(unique[1])[j].label
          /\ LabelGiven(report.variants, unique[1]) # RulesOf(unique[1])[k].label

\* No rule of a list that is not empty applies, and the label is "other/mixed".
C2_WitnessNoMatch ==
    /\ Summarised
    /\ RulesOf(unique[1]) # <<>>
    /\ \A k \in 1..Len(RulesOf(unique[1])) : ~RuleApplies(unique[1].title, RulesOf(unique[1])[k])
    /\ LabelGiven(report.variants, unique[1]) = "other/mixed"

\* C3, as amended: for a family with no rules, print_summary and
\* write_summary_csv count every record, whatever its title, under the one
\* label "(all)", which is not the label "other/mixed" of a record that no
\* rule of a list matches.
C3_NoRulesSingleBucket ==
    (Summarised /\ RulesOf(unique[1]) = <<>>) =>
        /\ LabelGiven(report.variants, unique[1]) = "(all)"
        /\ LabelGiven(summary_rows, unique[1]) = "(all)"
        /\ LabelGiven(report.variants, unique[1]) # "other/mixed"
        /\ LabelGiven(summary_rows, unique[1]) # "other/mixed"

\* A record of a family with no rules was summarised.
C3_Witness ==
    /\ Summarised
    /\ unique[1].chip_family = "ym2151"
    /\ RulesOf(unique[1]) = <<>>
    /\ LabelGiven(report.variants, unique[1]) = "(all)"

\* C3, as claimed: classify_variant itself, called with an empty rule list,
\* returns a label other than "other/mixed".
C3_Original ==
    (Summarised /\ RulesOf(unique[1]) = <<>>) =>
        classify_variant(unique[1].title, RulesOf(unique[1])) # "other/mixed"

\* ------------------------------------------------------------------------
\* The aggregator on files of one group of records
\* ------------------------------------------------------------------------

\* The records of the group.
MaxGroup == 5

StatsPrices == {"10.00", "20.00", "30.00", "40.00"}

\* A file of one family, variant and site, the k-th record with the k-th price.
StatsFile(prices) ==
    [k \in 1..Len(prices) |->
        CsvRow("sid", "MOS 6581 SID lot " \o CharAt(DIGITS, k + 1), prices[k], "USD",
               "2024-01-05", "com", "MOS 6581 SID")]

InitStats == ReprocessStart({StatsFile(prices) : prices \in SeqsUpTo(StatsPrices, MaxGroup)})

SpecStats == InitStats /\ [][NextReprocess]_vars

PricesOf(items) == [k \in 1..Len(items) |-> items[k].price]

\* sorted[k] of the ascending list of xs, k counted from 0: the value with at
\* most k values below it and more than k values not above it.
OrderStat(xs, k) ==
    CHOOSE p \in {xs[j] : j \in 1..Len(xs)} :
        /\ Cardinality({j \in 1..Len(xs) : xs[j] < p}) <= k
        /\ Cardinality({j \in 1..Len(xs) : xs[j] <= p}) > k

RECURSIVE TotalOf(_, _)
TotalOf(xs, k) == IF k > Len(xs) THEN 0 ELSE xs[k] + TotalOf(xs, k + 1)

\* The statistics of a group with prices xs, by their definitions.
StatsAsDefined(st, xs) ==
    /\ st.count = Len(xs)
    /\ st.min = OrderStat(xs, 0)
    /\ st.max = OrderStat(xs, Len(xs) - 1)
    /\ st.median = OrderStat(xs, Len(xs) \div 2)
    /\ st.mean.num = TotalOf(xs, 1) /\ st.mean.den = Len(xs)
    /\ Len(xs) >= 4 => /\ st.q1 = OrderStat(xs, Len(xs) \div 4)
                       /\ st.q3 = OrderStat(xs, (3 * Len(xs)) \div 4)
    /\ Len(xs) < 4 => st.q1 = st.min /\ st.q3 = st.max

\* The prices 10, 20, 30, 40, in any order.
IsExample(xs) ==
    Len(xs) = 4 /\ {xs[j] : j \in 1..4} = {1000, 2000, 3000, 4000}

ExampleStats(st) ==
    /\ st.median = 3000
    /\ st.q1 = 2000
    /\ st.q3 = 4000
    /\ st.mean.num = 2500 * st.mean.den

\* C5: for a group of n >= 1 records, count = n, min = sorted[0], max =
\* sorted[n-1], median = sorted[n div 2], mean = sum/n, q1 = sorted[n div 4]
\* and q3 = sorted[3n div 4] when n >= 4, q1 = min and q3 = max when n < 4,
\* sorted being the ascending prices; 10, 20, 30, 40 give median 30, q1 20,
\* q3 40 and mean 25.
C5_StatsFormulas ==
    (pc = "done" /\ unique # <<>>) =>
        /\ StatsAsDefined(report.total, PricesOf(unique))
        /\ StatsAsDefined(report.variants[1].stats, PricesOf(unique))
        /\ StatsAsDefined(report.by_site[1].stats, PricesOf(unique))
        /\ StatsAsDefined(summary_rows[Len(summary_rows)].stats, PricesOf(unique))
        /\ IsExample(PricesOf(unique)) => ExampleStats(report.total)

\* The group 40, 10, 30, 20 was summarised.
C5_Witness ==
    /\ pc = "done"
    /\ PricesOf(unique) = <<4000, 1000, 3000, 2000>>
    /\ report.total.count = 4
    /\ ExampleStats(report.total)
    /\ report.total.min = 1000
    /\ report.total.max = 4000

\* ------------------------------------------------------------------------
\* The filter in both drivers
\* ------------------------------------------------------------------------

\* The cards and legacy items of a page fetched for work item w, in the
\* order parse_listings goes through them.
EntriesOf(html, w) ==
    [k \in 1..Len(html.cards) |-> [el |-> html.cards[k], legacy |-> FALSE, w |-> w]]
    \o [k \in 1..Len(html.items) |-> [el |-> html.items[k], legacy |-> TRUE, w |-> w]]

\* The entries of all pages fetched so far.
EntriesFetched(pages) ==
    Flatten([j \in 1..Len(pages) |->
                IF IsPage(pages[j]) THEN EntriesOf(pages[j], work[j]) ELSE <<>>])

HasTitle(e) == e.el.title_el # NoneValue

TitleOf(e) == clean_title(str_strip(e.el.title_el))

FamilyOf(e) == CHIP_FAMILIES[e.w.fam_id]

\* One of the keywords is a substring of the lowercased text.
KeywordIn(kws, low) == \E n \in 1..Len(kws) : Contains(kws[n], low)

\* One of the must-match keywords of the family, if it has any, is a
\* substring of the lowercased title.
Relevant(title, family) ==
    LET low == str_lower(title)
    IN  Len(family.must_match) = 0 \/ KeywordIn(family.must_match, low)

\* A global or family exclusion keyword is a substring of the lowercased title.
Excluded(title, family) ==
    LET low == str_lower(title)
    IN  KeywordIn(GLOBAL_EXCLUSIONS, low) \/ KeywordIn(family.exclude, low)

PassesFilter(title, family) == Relevant(title, family) /\ ~Excluded(title, family)

HasPrice(e) ==
    /\ e.el.price_el # NoneValue
    /\ parse_price(str_strip(e.el.price_el)) # NoParse

PriceOf(e) == parse_price(str_strip(e.el.price_el))[1]

\* What parse_listings asks of an entry besides the filter.
LiveChecks(e, title) ==
    /\ title # ""
    /\ ~Contains("shop on ebay", str_lower(title))
    /\ HasPrice(e)
    /\ PriceOf(e) >= args.min_price
    /\ PriceOf(e) <= PRICE_CEILING

LiveAccepts(e) ==
    HasTitle(e) /\ LET title == TitleOf(e)
                   IN  PassesFilter(title, FamilyOf(e)) /\ LiveChecks(e, title)

KnownFamily(row) == row.chip_family \in FamilyIdSet

RowAccepts(row) ==
    KnownFamily(row) /\ PassesFilter(row.title, CHIP_FAMILIES[row.chip_family])

TitlesIn(xs) == [k \in 1..Len(xs) |-> xs[k].title]

Loaded == driver = "reprocess" /\ pc \in {"loaded", "print_summary", "done", "exit"}

MinPrice == IF driver = "live" THEN args.min_price ELSE DEFAULT_MIN_PRICE

\* C6: every record accepted and passed on to deduplication and aggregation,
\* by either driver, has min_price <= price <= 5000.
C6_PriceInRange ==
    /\ \A k \in 1..Len(all_listings) :
          MinPrice <= all_listings[k].price /\ all_listings[k].price <= PRICE_CEILING
    /\ \A k \in 1..Len(unique) :
          MinPrice <= unique[k].price /\ unique[k].price <= PRICE_CEILING

\* ------------------------------------------------------------------------
\* Input that does not parse, and rows of unknown families
\* ------------------------------------------------------------------------

\* The listings main gathers from the given pages, fetched for the work
\* items in order.
ListingsOf(pages) ==
    Flatten([j \in 1..Len(pages) |->
                IF IsPage(pages[j])
                THEN parse_listings(pages[j], work[j].site, work[j].query, work[j].fam_id,
                                    CHIP_FAMILIES[work[j].fam_id], args.min_price)
                ELSE <<>>])

\* The price element is there, and its text yields no parse.
Unpriced(el) ==
    el.price_el # NoneValue /\ parse_price(str_strip(el.price_el)) = NoParse

Priced(el) == ~Unpriced(el)

\* The pages without the entries whose price text yields no parse.
WithoutUnpriced(pages) ==
    [j \in 1..Len(pages) |->
        IF IsPage(pages[j])
        THEN [cards |-> SelectSeq(pages[j].cards, Priced),
              items |-> SelectSeq(pages[j].items, Priced)]
        ELSE pages[j]]

\* None of the texts parse_listings searches for the date of the entry
\* yields a parse.
Undated(e) ==
    /\ e.el.caption = NoneValue \/ parse_date(e.el.caption) = ""
    /\ e.legacy => /\ e.el.ended_date = NoneValue \/ parse_date(e.el.ended_date) = ""
                   /\ e.el.detail = NoneValue \/ parse_date(e.el.detail) = ""
    /\ parse_date(IF e.legacy THEN item_get_text(e.el) ELSE card_get_text(e.el)) = ""

\* C9: in parse_listings an entry whose price text yields no parse gives no
\* record and does not end the processing of the entries after it: the
\* listings gathered are those of the pages without such entries; and an
\* entry whose date texts yield no parse gives its record all the same, with
\* an empty date_sold.
C9_UnpricedDroppedUndatedKept ==
    driver = "live" =>
        LET accepted == SelectSeq(EntriesFetched(fetched), LiveAccepts)
        IN  /\ all_listings = ListingsOf(WithoutUnpriced(fetched))
            /\ Len(all_listings) = Len(accepted)
            /\ \A k \in 1..Len(accepted) :
                  /\ all_listings[k].price = PriceOf(accepted[k])
                  /\ Undated(accepted[k]) <=> all_listings[k].date_sold = ""

\* A page held an entry whose price text yields no parse, and after it an
\* entry whose date texts yield no parse: one record was gathered, the
\* second entry's, with an empty date_sold.
C9_Witness ==
    /\ driver = "live"
    /\ Len(EntriesFetched(fetched)) = 2
    /\ HasTitle(EntriesFetched(fetched)[1])
    /\ PassesFilter(TitleOf(EntriesFetched(fetched)[1]), FamilyOf(EntriesFetched(fetched)[1]))
    /\ Unpriced(EntriesFetched(fetched)[1].el)
    /\ LiveAccepts(EntriesFetched(fetched)[2])
    /\ Undated(EntriesFetched(fetched)[2])
    /\ Len(all_listings) = 1
    /\ all_listings[1].title = TitleOf(EntriesFetched(fetched)[2])
    /\ all_listings[1].date_sold = ""

AfterLoad == driver = "reprocess" /\ pc # "load"

\* C10: load_and_filter skips a row whose family is not in the catalog and
\* does not abort on it: the records loaded, and whether the load raised, are
\* those of the file without such rows, and no record loaded has a family
\* that is not in the catalog.
C10_UnknownFamilySkipped ==
    AfterLoad =>
        LET known == load_rows(SelectSeq(csv_in, KnownFamily), 1, <<>>)
        IN  /\ all_listings = known.raw
            /\ (pc = "raised") = known.raised
            /\ pc # "raised" => unique = load_and_filter(SelectSeq(csv_in, KnownFamily)).unique
            /\ \A k \in 1..Len(all_listings) : all_listings[k].chip_family \in FamilyIdSet
            /\ \A k \in 1..Len(unique) : unique[k].chip_family \in FamilyIdSet

\* The file began with a row of an unknown family, and a row after it was
\* loaded.
C10_Witness ==
    /\ AfterLoad
    /\ Len(csv_in) >= 2
    /\ ~KnownFamily(csv_in[1])
    /\ RowAccepts(csv_in[2])
    /\ pc # "raised"
    /\ Len(all_listings) >= 1
    /\ all_listings[1].title = csv_in[2].title

\* ------------------------------------------------------------------------
\* The same raw record fed twice
\* ------------------------------------------------------------------------

\* The statistics of a printed summary: all of it but the currency that
\* labels a site.
ReportStats(rep) ==
    IF "text" \in DOMAIN rep THEN rep
    ELSE [unique |-> rep.unique,
          by_site |-> [k \in 1..Len(rep.by_site) |->
                          [site |-> rep.by_site[k].site, stats |-> rep.by_site[k].stats]],
          variants |-> rep.variants,
          total |-> rep.total,
          date_range |-> rep.date_range,
          distribution |-> rep.distribution]

\* What the live driver prints when it has fetched the given pages.
LiveReport(pages) == print_summary(dedup_listings(ListingsOf(pages)))

\* The pages, with card k of page j once more in page j2: j2 = j when one
\* page shows the listing twice, and j2 # j when the pages of two queries do.
WithCardAgain(pages, j, k, j2) ==
    [pages EXCEPT ![j2].cards = Append(@, pages[j].cards[k])]

WithItemAgain(pages, j, k, j2) ==
    [pages EXCEPT ![j2].items = Append(@, pages[j].items[k])]

\* The rows, with row k once more after row p.
WithRowAgain(rows, k, p) ==
    SubSeq(rows, 1, p) \o <<rows[k]>> \o SubSeq(rows, p + 1, Len(rows))

PagesFetched == {j \in 1..Len(fetched) : IsPage(fetched[j])}

\* C8: feeding a set of raw records in which one record appears twice
\* through filter, classifier, deduplicator and aggregator gives exactly the
\* statistics (count, mean, median, q1, q3, min, max of each group and of
\* the total) of the set in which it appears once.
C8_TwiceAsOnce ==
    pc = "done" =>
        /\ driver = "live" =>
              \A j \in PagesFetched, j2 \in PagesFetched :
                 /\ \A k \in 1..Len(fetched[j].cards) :
                       ReportStats(LiveReport(WithCardAgain(fetched, j, k, j2)))
                          = ReportStats(report)
                 /\ \A k \in 1..Len(fetched[j].items) :
                       ReportStats(LiveReport(WithItemAgain(fetched, j, k, j2)))
                          = ReportStats(report)
        /\ driver = "reprocess" =>
              \A k \in 1..Len(csv_in), p \in 0..Len(csv_in) :
                 LET twice == load_and_filter(WithRowAgain(csv_in, k, p))
                 IN  /\ ~twice.raised
                     /\ write_summary_csv(twice.unique) = summary_rows
                     /\ ReportStats(print_summary(twice.unique)) = ReportStats(report)

\* One accepted card was fetched and summarised: the count is 1, as it is
\* when the page of the other query shows the card too.
C8_Witness ==
    /\ pc = "done"
    /\ driver = "live"
    /\ PagesFetched = {1, 2}
    /\ Len(fetched[1].cards) = 1
    /\ fetched[1].items = <<>>
    /\ page_size(fetched[2]) = 0
    /\ Len(all_listings) = 1
    /\ report.total.count = 1
    /\ Len(ListingsOf(WithCardAgain(fetched, 1, 1, 2))) = 2
    /\ LiveReport(WithCardAgain(fetched, 1, 1, 2)).total.count = 1

\* ------------------------------------------------------------------------
\* C11: the persisted table gives the live driver's records back
\* ------------------------------------------------------------------------

\* The live driver has written its table.
TableWritten == driver = "live" /\ pc \in {"print_summary", "done"}

\* C11: whatever list the live driver wrote with write_csv, load_and_filter
\* reads from the written rows, under the same catalog, without raising, the
\* same records with the same field values in the same order.
C11_RoundTrip ==
    TableWritten =>
        /\ csv_out = write_csv(unique)
        /\ load_and_filter(csv_out) = [raised |-> FALSE, unique |-> unique]

\* A table of two records has been written, one of them with an empty date
\* and a price that was read from "$1,234.5" and is written as "1234.50".
C11_Witness ==
    /\ TableWritten
    /\ Len(unique) >= 2
    /\ \E k \in 1..Len(unique) :
          /\ unique[k].price = 123450
          /\ unique[k].date_sold = ""
          /\ csv_out[k].price = "1234.50"
    /\ load_and_filter(csv_out).unique = unique

\* ------------------------------------------------------------------------
\* The live driver on pages of one result card
\* ------------------------------------------------------------------------

\* How many pages of a run are given a result card.
MaxTexts == 1

\* The live driver started on one of the given command lines.
LiveStart(choices) ==
    /\ strftime_pads_year \in BOOLEAN
    /\ NoFetchPageCall
    /\ driver = "live"
    /\ args \in choices
    /\ work = build_work(args)
    /\ i = 1
    /\ fetched = <<>>
    /\ all_listings = <<>>
    /\ csv_in = <<>>
    /\ unique = <<>>
    /\ csv_out = <<>>
    /\ summary_rows = <<>>
    /\ report = NoReport
    /\ pc = "scrape"

\* --chips sid --pages 1 --sites com
SidArgs ==
    [chips |-> <<"sid">>, pages |-> 1, min_price |-> DEFAULT_MIN_PRICE, sites |-> <<"com">>]

pages_parsed(pages) == Cardinality({k \in 1..Len(pages) : IsPage(pages[k])})

OneCardPages(cards) == {[cards |-> <<c>>, items |-> <<>>] : c \in cards}

\* One pass of main's loop where fetch_page gives None or a page of one of
\* the given cards.
ScrapeTexts(cards) ==
    ScrapeFrom({NoPage} \cup (IF pages_parsed(fetched) < MaxTexts
                              THEN OneCardPages(cards) ELSE {}))

\* The cards of all fetched pages, in order.
RECURSIVE CardsOf(_)
CardsOf(pages) ==
    IF pages = <<>> THEN <<>>
    ELSE (IF IsPage(Head(pages)) THEN Head(pages).cards ELSE <<>>) \o CardsOf(Tail(pages))

\* ------------------------------------------------------------------------
\* C12: the price parser, on the price texts of result cards
\* ------------------------------------------------------------------------

\* Well-formed price texts, each with the amount (in hundredths) and the
\* currency code it denotes: a known symbol, digits with optional thousands
\* commas, at most two fractional digits.
SymbolCodes == {<<"$", "USD">>, <<POUND, "GBP">>, <<EURO, "EUR">>}

WholeParts ==
    {<<"0", 0>>, <<"7", 7>>, <<"007", 7>>, <<"12", 12>>, <<"1,234", 1234>>,
     <<"4,999", 4999>>, <<"5,000", 5000>>, <<"12,345", 12345>>, <<"1,000,000", 1000000>>}

FractionParts == {<<"", 0>>, <<".5", 50>>, <<".05", 5>>, <<".99", 99>>, <<".00", 0>>}

WellFormedPrices ==
    {[text |-> s[1] \o w[1] \o f[1], amount |-> 100 * w[2] + f[2], currency |-> s[2]] :
        s \in SymbolCodes, w \in WholeParts, f \in FractionParts}

\* Texts where no known symbol is followed by a digit.
NoPatternTexts ==
    {"", "Free", "10.00", "USD 10.00", "$", "$ ", (POUND \o "abc"), "$.50", "$-5", "$  5",
     "5$", "EUR 5,00", (YEN \o "100"), ("1,234.50 " \o EURO), "$ .5", "$,", (EURO \o " ,")}

\* Texts with a price among other words, or not quite well-formed.
OtherPriceTexts ==
    {"US $15.00", "$ 5", "$,5", "$12.345", "$10.00 to $20.00", ("was " \o POUND \o "8.5 now"), "$1.2.3"}

PriceTexts == {w.text : w \in WellFormedPrices} \cup NoPatternTexts \cup OtherPriceTexts

PriceCards == {Card("MOS 6581 SID", t, SOLD_CAPTION) : t \in PriceTexts}

ScrapePrices == ScrapeTexts(PriceCards)

NextPrice ==
    \/ ScrapePrices
    \/ MainDedup
    \/ MainWriteCsv
    \/ PrintSummary

SpecPrice == LiveStart({SidArgs}) /\ [][NextPrice]_vars

\* A known symbol is followed by a digit, with nothing between them but
\* thousands commas and at most one blank.
HasSymbolDigits(text) ==
    \E a \in 1..Len(text) : \E b \in (a + 1)..Len(text) :
        /\ \E s \in SymbolCodes : s[1] = CharAt(text, a)
        /\ IsDigit(CharAt(text, b))
        /\ \A k \in (a + 1)..(b - 1) : CharAt(text, k) = "," \/ IsSpace(CharAt(text, k))
        /\ Cardinality({k \in (a + 1)..(b - 1) : IsSpace(CharAt(text, k))}) <= 1

\* The text parse_listings hands to parse_price for a card.
PriceTextOf(card) == str_strip(card.price_el)

InRange(amount) == amount >= args.min_price /\ amount <= PRICE_CEILING

\* C12: for every price text that reached parse_price, a well-formed text
\* (known symbol, digits with optional thousands commas, at most two
\* fractional digits) gives the pair of its numeric value, commas ignored,
\* and the code of its symbol, and a listing with that price and currency is
\* made when the value is in the accepted range; a text with no symbol and
\* digits gives None and no listing; and the result is never anything but
\* None or such a pair.
C12_ParsePrice ==
    LET cards == CardsOf(fetched)
    IN  /\ \A k \in 1..Len(cards) :
              LET text == PriceTextOf(cards[k])
                  got == parse_price(text)
              IN  /\ \A w \in WellFormedPrices :
                        w.text = text =>
                            /\ got = <<w.amount, w.currency>>
                            /\ InRange(w.amount) =>
                                  \E n \in 1..Len(all_listings) :
                                      /\ all_listings[n].price = w.amount
                                      /\ all_listings[n].currency = w.currency
                  /\ ~HasSymbolDigits(text) => got = NoParse
                  /\ got = NoParse \/ (Len(got) = 2 /\ got[1] \in Nat)
        /\ (\A k \in 1..Len(cards) : ~HasSymbolDigits(PriceTextOf(cards[k])))
              => all_listings = <<>>

\* A card priced "£1,234.5" was parsed to 1234.50 GBP and its listing made.
C12_Witness ==
    /\ \E k \in 1..Len(CardsOf(fetched)) :
          /\ CardsOf(fetched)[k].price_el = (POUND \o "1,234.5")
          /\ parse_price((POUND \o "1,234.5")) = <<123450, "GBP">>
    /\ \E n \in 1..Len(all_listings) :
          all_listings[n].price = 123450 /\ all_listings[n].currency = "GBP"
    /\ pc = "done"

\* A card whose price text "$.50" has no symbol and digits was parsed to None
\* and dropped.
C12_WitnessNoParse ==
    /\ \E k \in 1..Len(CardsOf(fetched)) : CardsOf(fetched)[k].price_el = "$.50"
    /\ parse_price("$.50") = NoParse
    /\ all_listings = <<>>
    /\ pc = "done"

\* ------------------------------------------------------------------------
\* C13: the date parser, on the captions of result cards
\* ------------------------------------------------------------------------

DateTexts ==
    {"Sold Jan 5, 2024", "Sold 5 Jan 2024", "5 Jan 2024", "Jan 5 2024", "Buy now",
     "", "Sold", "Sold Foo 5, 2024 or 6 Feb 2023", "Sold Feb 30, 2024",
     "Sold Sep 31 2024 1 Oct 2024", "Sold 31 Sep 2024 Oct 1 2024",
     "10 Feb 2023 Sold Jan 5, 2024", "Sold Jan 5, 2024 10 Feb 2023",
     "Dec 31, 1999", "Sold  Mar  3  2024", "29 Feb 2024", "29 Feb 2023",
     "sold jan 5 2024", "Sold Mar 3,2024", "1 Jan 20245", "Ended 12 Jan 5 2024",
     "Sold Jan 5, 0999", "5 Jan 0042", "Sold Jan 5, 0000"}

DateCards == {Card("MOS 6581 SID", "$10.00", t) : t \in DateTexts}

ScrapeDates == ScrapeTexts(DateCards)

NextDate ==
    \/ ScrapeDates
    \/ MainDedup
    \/ MainWriteCsv
    \/ PrintSummary

SpecDate == LiveStart({SidArgs}) /\ [][NextDate]_vars

\* The text pattern p captures in text parses under format f.
PairParses(text, p, f) ==
    LET m == date_search(DATE_PATTERNS[p], text)
    IN  /\ m # NoneValue
        /\ strptime_iso(remove_commas(str_strip(m)), DATE_FORMATS[f]) # ValueError

\* The date of the pair <<p, f>>.
PairDate(text, pf) ==
    strptime_iso(remove_commas(str_strip(date_search(DATE_PATTERNS[pf[1]], text))),
                 DATE_FORMATS[pf[2]])

\* Pair a is tried before pair b: patterns outermost, both in declaration order.
TriedBefore(a, b) == a[1] < b[1] \/ (a[1] = b[1] /\ a[2] < b[2])

\* What the claim says parse_date returns.
FirstPairDate(text) ==
    LET ok == {pf \in (1..Len(DATE_PATTERNS)) \X (1..Len(DATE_FORMATS)) :
                  PairParses(text, pf[1], pf[2])}
    IN  IF ok = {} THEN ""
        ELSE PairDate(text, CHOOSE pf \in ok : \A other \in ok \ {pf} : TriedBefore(pf, other))

DateExamples ==
    {<<"Sold Jan 5, 2024", "2024-01-05">>, <<"Sold 5 Jan 2024", "2024-01-05">>,
     <<"5 Jan 2024", "2024-01-05">>, <<"Jan 5 2024", "2024-01-05">>, <<"Buy now", "">>}

\* YYYY-MM-DD: four digits, two digits, two digits, with hyphens between.
IsIsoDate(d) ==
    /\ Len(d) = 10
    /\ AllDigits(SubSeq(d, 1, 4)) /\ CharAt(d, 5) = "-"
    /\ AllDigits(SubSeq(d, 6, 7)) /\ CharAt(d, 8) = "-"
    /\ AllDigits(SubSeq(d, 9, 10))

CaptionsFetched == {CardsOf(fetched)[k].caption : k \in 1..Len(CardsOf(fetched))}

\* The order of the trials, as C13 has it: for every caption that reached
\* parse_date the result is the date of the first pair of pattern and format,
\* patterns outermost and both in declaration order, that parses, so that a
\* pattern that matches and parses under no format does not keep later ones
\* from being tried; it is "" when no pair parses, never an error; the five
\* examples give what the claim says; and a date found is the listing's.
DateOfFirstPair ==
    \A text \in CaptionsFetched :
        /\ parse_date(text) = FirstPairDate(text)
        /\ parse_date(text) # ValueError
        /\ \A ex \in DateExamples : ex[1] = text => parse_date(text) = ex[2]
        /\ parse_date(text) # "" =>
              \E n \in 1..Len(all_listings) : all_listings[n].date_sold = parse_date(text)

\* A pattern that matched and parsed under no format was passed over, and a
\* later pattern gave the date.
DateOfLaterPattern ==
    /\ "Sold Foo 5, 2024 or 6 Feb 2023" \in CaptionsFetched
    /\ date_search(DATE_PATTERNS[1], "Sold Foo 5, 2024 or 6 Feb 2023") = "Foo 5, 2024"
    /\ \A f \in 1..Len(DATE_FORMATS) : ~PairParses("Sold Foo 5, 2024 or 6 Feb 2023", 1, f)
    /\ \E n \in 1..Len(all_listings) : all_listings[n].date_sold = "2023-02-06"

\* C13: parse_date returns the date of the first pair of pattern and format
\* that parses, in the order of DateOfFirstPair, and that date is written
\* YYYY-MM-DD; or "" when no pair parses.
C13_ParseDate ==
    /\ DateOfFirstPair
    /\ \A text \in CaptionsFetched : parse_date(text) = "" \/ IsIsoDate(parse_date(text))

\* The caption "Sold Jan 5, 0999" was parsed on the GNU C library, and the
\* listing's date is "999-01-05".
C13_Witness ==
    /\ "Sold Jan 5, 0999" \in CaptionsFetched
    /\ ~strftime_pads_year
    /\ \E n \in 1..Len(all_listings) : all_listings[n].date_sold = "999-01-05"
    /\ pc = "done"

\* ------------------------------------------------------------------------
\* C14: the title cleaner, on the titles of result cards
\* ------------------------------------------------------------------------

TitleTexts ==
    {"New listing MOS 6581 SID  chip", "MOS 6581 SID", "NEW LISTING MOS 6581 SID",
     "new listingMOS 6581 SID", "MOS 6581 SID Opens in a new window or tab",
     "MOS 6581 SID  OPENS IN A NEW WINDOW OR TAB",
     "New listing  MOS   6581\t\tSID \n Opens in a new window or tab",
     "New listingOpens in a new window or tab", "New listing",
     "Opens in a new window or tab", " New listing MOS 6581 SID",
     "MOS 6581 New listing SID", "MOS 6581 SID Opens in a new window or tab\n",
     "MOS 6581 SID Opens in a new window or tab  ",
     "MOS\t6581\nSID", "MOS 6581 SID \t chip", "New listing New listing MOS 6581 SID",
     "", "   ", "  MOS  6581  SID  ",
     "MOS 6581 SID Opens in a new window or tab Opens in a new window or tab",
     "New listing \n MOS 6581 SID"}

TitleCards == {Card(t, "$10.00", SOLD_CAPTION) : t \in TitleTexts}

ScrapeTitles == ScrapeTexts(TitleCards)

NextTitle ==
    \/ ScrapeTitles
    \/ MainDedup
    \/ MainWriteCsv
    \/ PrintSummary

SpecTitle == LiveStart({SidArgs}) /\ [][NextTitle]_vars

\* t without "New listing" at its start and without "Opens in a new window or
\* tab" at its end, whatever the case of their letters.
WithoutMarkers(t) ==
    LET lead == "new listing"
        trail == "opens in a new window or tab"
        body == IF StartsWith(str_lower(t), lead) THEN SubSeq(t, Len(lead) + 1, Len(t)) ELSE t
        n == Len(body)
    IN  IF n >= Len(trail) /\ SubSeq(str_lower(body), n - Len(trail) + 1, n) = trail
        THEN SubSeq(body, 1, n - Len(trail))
        ELSE body

NoEdgeWhitespace(t) == t = "" \/ (~IsSpace(CharAt(t, 1)) /\ ~IsSpace(CharAt(t, Len(t))))

NoWhitespaceRun(t) ==
    \A k \in 1..(Len(t) - 1) : ~(IsSpace(CharAt(t, k)) /\ IsSpace(CharAt(t, k + 1)))

\* The specified order: remove, collapse, trim.
RemoveCollapseTrim(raw) == str_strip(collapse_spaces(title_noise_sub(raw)))

\* The title texts of the fetched cards, as they are in the page and as
\* get_text(strip=True) hands them to clean_title.
TitleTextsFetched ==
    UNION {{CardsOf(fetched)[k].title_el, str_strip(CardsOf(fetched)[k].title_el)} :
              k \in 1..Len(CardsOf(fetched))}

\* C14: for every title text of a fetched card, clean_title's result has no
\* whitespace at either end and no two whitespace characters in a row, and is
\* what removing, collapsing and trimming in the specified order gives; for
\* the text handed to clean_title it is the text without its leading "New
\* listing" and its trailing "Opens in a new window or tab" (in any case),
\* collapsed and trimmed, and it is the title of the listing made of the card.
C14_CleanTitle ==
    /\ \A t \in TitleTextsFetched :
          /\ NoEdgeWhitespace(clean_title(t))
          /\ NoWhitespaceRun(clean_title(t))
          /\ clean_title(t) = RemoveCollapseTrim(t)
    /\ \A k \in 1..Len(CardsOf(fetched)) :
          LET t == str_strip(CardsOf(fetched)[k].title_el)
          IN  /\ clean_title(t) = str_strip(collapse_spaces(WithoutMarkers(t)))
              /\ t = "New listing MOS 6581 SID  chip" => clean_title(t) = "MOS 6581 SID chip"
    /\ \A n \in 1..Len(all_listings) :
          \E k \in 1..Len(CardsOf(fetched)) :
              all_listings[n].title = clean_title(str_strip(CardsOf(fetched)[k].title_el))

\* A title with both markers, in mixed case, and runs of whitespace next to
\* them and inside was cleaned to "MOS 6581 SID", the listing's title.
C14_Witness ==
    /\ \E k \in 1..Len(CardsOf(fetched)) :
          CardsOf(fetched)[k].title_el =
              "New listing  MOS   6581\t\tSID \n Opens in a new window or tab"
    /\ title_noise_sub("New listing  MOS   6581\t\tSID \n Opens in a new window or tab")
          = "  MOS   6581\t\tSID \n "
    /\ \E n \in 1..Len(all_listings) : all_listings[n].title = "MOS 6581 SID"
    /\ pc = "done"

\* ------------------------------------------------------------------------
\* C15: the variant buckets of the two summaries
\* ------------------------------------------------------------------------

\* The bucket of a record: the label of the first rule that applies, "(all)"
\* for a family without rules, "other/mixed" when no rule applies.
BucketOf(item) ==
    IF RulesOf(item) = <<>> THEN "(all)" ELSE FirstRuleLabel(item.title, RulesOf(item))

\* The lines of a summary that stand for a bucket: not the subtotals, not the total.
BucketLines(lines) ==
    SelectSeq(lines, LAMBDA line :
        line.chip_family # "" /\ line.variant \notin {"SUBTOTAL", "--- subtotal ---"})

RECURSIVE CountSum(_)
CountSum(lines) ==
    IF lines = <<>> THEN 0 ELSE Head(lines).stats.count + CountSum(Tail(lines))

RecordsIn(fam_id, label) ==
    {k \in 1..Len(unique) : unique[k].chip_family = fam_id /\ BucketOf(unique[k]) = label}

\* The summary lines partition the records into buckets that add up to total.
Bucketed(lines, total) ==
    LET buckets == BucketLines(lines)
    IN  /\ \A k \in 1..Len(unique) :
              Cardinality({n \in 1..Len(buckets) :
                              /\ buckets[n].chip_family = unique[k].chip_family
                              /\ buckets[n].variant = BucketOf(unique[k])}) = 1
        /\ \A n \in 1..Len(buckets) :
              /\ buckets[n].stats.count >= 1
              /\ buckets[n].stats.count
                    = Cardinality(RecordsIn(buckets[n].chip_family, buckets[n].variant))
        /\ \A fam_id \in FamilyIdSet :
              CountSum(VariantLinesOf(lines, fam_id))
                 = Cardinality({k \in 1..Len(unique) : unique[k].chip_family = fam_id})
        /\ CountSum(buckets) = total

\* print_summary has printed its table.
TablePrinted == pc = "done" /\ "variants" \in DOMAIN report

\* write_summary_csv has written its rows, the last of them the grand total.
SummaryWritten == driver = "reprocess" /\ pc \in {"print_summary", "done"}

\* C15: in what print_summary prints and in what write_summary_csv writes,
\* for the records of either driver, each record is counted in exactly one
\* emitted bucket, that of its family and of its label (a rule's, "(all)" or
\* "other/mixed"); every emitted bucket holds at least one record and counts
\* its records; the bucket counts of a family add up to the family's records,
\* and all bucket counts add up to the count of the grand total.
C15_BucketCounts ==
    /\ TablePrinted => Bucketed(report.variants, report.total.count)
    /\ SummaryWritten =>
          /\ summary_rows[Len(summary_rows)].chip_name = "TOTAL"
          /\ Bucketed(SubSeq(summary_rows, 1, Len(summary_rows) - 1),
                      summary_rows[Len(summary_rows)].stats.count)

\* Both summaries of the re-processing driver are out, with three buckets of
\* one record each, two of them of one family.
C15_Witness ==
    /\ SummaryWritten
    /\ TablePrinted
    /\ Len(unique) = 3
    /\ Len(BucketLines(report.variants)) = 3
    /\ Len(BucketLines(summary_rows)) = 3
    /\ \E a, b \in 1..3 :
          /\ a # b
          /\ BucketLines(summary_rows)[a].chip_family = BucketLines(summary_rows)[b].chip_family
    /\ \E a, b \in 1..3 :
          BucketLines(summary_rows)[a].chip_family # BucketLines(summary_rows)[b].chip_family

\* The live driver has printed a table where a record without a matching rule
\* is counted under "other/mixed" next to a record of a rule's bucket.
C15_WitnessLive ==
    /\ driver = "live"
    /\ TablePrinted
    /\ Len(unique) = 2
    /\ \E n \in 1..Len(report.variants) :
          report.variants[n].variant = "other/mixed" /\ report.variants[n].stats.count = 1
    /\ report.total.count = 2

\* ------------------------------------------------------------------------
\* C16: no statistics of an empty group
\* ------------------------------------------------------------------------

\* The results of the calls of _calc_stats print_summary made: one per site
\* line, one per variant and subtotal line, one for the total.
StatsPrinted(rep) ==
    {rep.by_site[k].stats : k \in 1..Len(rep.by_site)}
    \cup {rep.variants[k].stats : k \in 1..Len(rep.variants)}
    \cup {rep.total}

\* The results of the calls write_summary_csv made: one per row.
StatsWritten(rows) == {rows[k].stats : k \in 1..Len(rows)}

\* The call was given a group of at least one record, and its division was done.
OfNonEmptyGroup(s) == s # ZeroDivisionError /\ s.count >= 1

\* C16: in every run of either driver every call of _calc_stats, in
\* print_summary and in write_summary_csv, is given a non-empty list, so the
\* division by the size of the group never fails: an empty list makes
\* print_summary return before any call, and makes summarise's main exit
\* before it calls write_summary_csv and print_summary.
C16_NoEmptyGroup ==
    /\ "variants" \in DOMAIN report => \A s \in StatsPrinted(report) : OfNonEmptyGroup(s)
    /\ \A s \in StatsWritten(summary_rows) : OfNonEmptyGroup(s)
    /\ (pc = "done" /\ unique = <<>>) => report = [text |-> "No listings found."]
    /\ (driver = "reprocess" /\ unique = <<>>) => (summary_rows = <<>> /\ report = NoReport)

\* The live driver found no listing in the page it fetched, and print_summary
\* returned before its first call of _calc_stats.
C16_Witness ==
    /\ driver = "live"
    /\ pc = "done"
    /\ \E k \in 1..Len(fetched) : IsPage(fetched[k]) /\ page_size(fetched[k]) > 0
    /\ unique = <<>>
    /\ report = [text |-> "No listings found."]

\* The re-processing driver read a file of which no row passed, and left
\* without a call of write_summary_csv or print_summary.
C16_WitnessExit ==
    /\ driver = "reprocess"
    /\ pc = "exit"
    /\ csv_in # <<>>
    /\ unique = <<>>
    /\ summary_rows = <<>>
    /\ report = NoReport

\* Both summaries are out, with a subtotal line among their statistics.
C16_WitnessStats ==
    /\ driver = "reprocess"
    /\ pc = "done"
    /\ \E k \in 1..Len(summary_rows) : summary_rows[k].variant = "SUBTOTAL"
    /\ \A s \in StatsPrinted(report) \cup StatsWritten(summary_rows) : OfNonEmptyGroup(s)

\* ------------------------------------------------------------------------
\* The aggregator on files whose prices are not exact in binary
\* ------------------------------------------------------------------------

\* Prices of which one, 10.00, is a double exactly and the others are not.
MeanPrices == {"1.35", "1.40", "10.00"}

InitMean == ReprocessStart({StatsFile(prices) : prices \in SeqsUpTo(MeanPrices, MaxGroup)})

SpecMean == InitMean /\ [][NextReprocess]_vars

\* min <= q1 <= median <= q3 <= max
QuartilesInOrder(st) ==
    /\ st.min <= st.q1
    /\ st.q1 <= st.median
    /\ st.median <= st.q3
    /\ st.q3 <= st.max

\* min <= sum/n <= max, the quotient taken exactly
ExactMeanInRange(st) ==
    /\ st.min * st.mean.den <= st.mean.num
    /\ st.mean.num <= st.max * st.mean.den

\* min <= mean <= max, of the floats _calc_stats returns
FloatMeanInRange(items) ==
    /\ ~float_less(_calc_stats_mean(items), float_of_hundredths(_calc_stats(items).min))
    /\ ~float_less(float_of_hundredths(_calc_stats(items).max), _calc_stats_mean(items))

\* min <= mean <= max, of the three as f"{x:.2f}" writes them
WrittenMeanInRange(items) ==
    /\ _calc_stats(items).min <= two_decimals(_calc_stats_mean(items))
    /\ two_decimals(_calc_stats_mean(items)) <= _calc_stats(items).max

\* Every group of the run had all the records, and its statistics were
\* printed and written.
OneGroup ==
    /\ pc = "done"
    /\ unique # <<>>
    /\ StatsPrinted(report) \cup StatsWritten(summary_rows) = {_calc_stats(unique)}

\* C17, amended: for every non-empty group and every group size, min <= q1 <=
\* median <= q3 <= max; the mean lies between min and max as the exact
\* quotient sum/n and as it is written with two decimals. (The float itself
\* can lie outside by its rounding: C17_Original.)
C17_StatsInOrder ==
    (pc = "done" /\ unique # <<>>) =>
        /\ OneGroup
        /\ \A st \in StatsPrinted(report) \cup StatsWritten(summary_rows) :
              QuartilesInOrder(st) /\ ExactMeanInRange(st)
        /\ WrittenMeanInRange(unique)

\* C17, as claimed: min <= q1 <= median <= q3 <= max and min <= mean <= max
\* hold of the values _calc_stats returns for every non-empty group.
C17_Original ==
    (pc = "done" /\ unique # <<>>) =>
        /\ QuartilesInOrder(_calc_stats(unique))
        /\ FloatMeanInRange(unique)

\* Three records at 1.40 were summarised, and the mean returned is below the
\* minimum.
C17_Witness ==
    /\ OneGroup
    /\ PricesOf(unique) = <<140, 140, 140>>
    /\ float_less(_calc_stats_mean(unique), float_of_hundredths(_calc_stats(unique).min))

\* Three records at 1.35 were summarised, and the mean returned is above the
\* maximum.
C17_WitnessAbove ==
    /\ OneGroup
    /\ PricesOf(unique) = <<135, 135, 135>>
    /\ float_less(float_of_hundredths(_calc_stats(unique).max), _calc_stats_mean(unique))

\* A group of five records with three different prices was summarised: its
\* quartiles are at indices 1 and 3, its median at 2.
C17_WitnessFive ==
    /\ OneGroup
    /\ Len(unique) = 5
    /\ _calc_stats(unique).min < _calc_stats(unique).median
    /\ _calc_stats(unique).median < _calc_stats(unique).max

\* ------------------------------------------------------------------------
\* fetch_page, attempt by attempt
\* ------------------------------------------------------------------------

\* The largest retries argument of the calls followed.
MaxRetries == 3

\* The phrases of a bot-detection page
BLOCK_PHRASES == <<"checking your browser", "access denied", "verify you are human">>

\* page.content(): whether the page has li.s-card or li.s-item elements, and
\* the text of the page.
Html(results, text) == [results |-> results, text |-> text]

RenderedPages ==
    {Html(TRUE, "MOS 6581 SID $10.00"),
     Html(TRUE, "6581 Access Denied sticker"),
     Html(FALSE, "No exact matches found"),
     Html(FALSE, "Access Denied"),
     Html(FALSE, "Checking your browser..."),
     Html(FALSE, "Please VERIFY you are human")}

\* What one attempt meets: an exception in page.goto or after it, no
\* response, or a response with its status and the page rendered.
Raised == [goto |-> "raised"]

NoResponse == [goto |-> "None"]

Response(status, html) == [goto |-> "response", status |-> status, html |-> html]

Statuses == {200, 503}

Navigations ==
    {Raised, NoResponse} \cup {Response(st, html) : st \in Statuses, html \in RenderedPages}

\* any(w in body_text for w in (...)), body_text being the lowered text
has_block_phrase(text) ==
    \E k \in 1..Len(BLOCK_PHRASES) : Contains(BLOCK_PHRASES[k], str_lower(text))

\* A page counts as blocked by a phrase alone.
is_block_page_by_phrase(html) == has_block_phrase(html.text)

\* not has_results, and a block phrase in the text
is_block_page(html) == ~html.results /\ has_block_phrase(html.text)

\* The body of the loop on what the attempt met: the HTML it returns, or
\* Pending when it goes on to the next attempt (continue, or the handler of
\* the exception).
attempt_result(nav) ==
    IF nav = Raised THEN Pending
    ELSE IF nav = NoResponse THEN Pending
    ELSE IF is_block_page(nav.html) THEN Pending
    ELSE IF nav.status = 503 THEN Pending
    ELSE nav.html

\* fetch_page was called with one of the given numbers of retries.
FetchStart(choices) ==
    /\ strftime_pads_year = FALSE
    /\ retries \in choices
    /\ navigations = <<>>
    /\ returned = Pending
    /\ driver = "fetch_page"
    /\ args = NoArgs
    /\ work = <<>>
    /\ i = 1
    /\ fetched = <<>>
    /\ all_listings = <<>>
    /\ csv_in = <<>>
    /\ unique = <<>>
    /\ csv_out = <<>>
    /\ summary_rows = <<>>
    /\ report = NoReport
    /\ pc = "fetch"

InitFetch == FetchStart(0..MaxRetries)

\* One pass of the loop: for attempt in range(1, retries + 1), attempt being
\* one more than the attempts made.
Attempt ==
    /\ pc = "fetch"
    /\ Len(navigations) + 1 <= retries
    /\ \E nav \in Navigations :
        /\ navigations' = Append(navigations, nav)
        /\ returned' = attempt_result(nav)
        /\ pc' = IF attempt_result(nav) = Pending THEN "fetch" ELSE "done"
    /\ UNCHANGED <<strftime_pads_year, retries, driver, args, work, i, fetched, all_listings,
                   csv_in, unique, csv_out, summary_rows, report>>

\* The loop is over: return None
Exhausted ==
    /\ pc = "fetch"
    /\ Len(navigations) + 1 > retries
    /\ returned' = NoPage
    /\ pc' = "done"
    /\ UNCHANGED <<strftime_pads_year, retries, navigations, driver, args, work, i, fetched,
                   all_listings, csv_in, unique, csv_out, summary_rows, report>>

NextFetch == Attempt \/ Exhausted

SpecFetch == InitFetch /\ [][NextFetch]_vars

\* Every attempt ends (page.goto has a timeout, the sleeps are finite), and
\* so does the call.
SpecFetchFair == SpecFetch /\ WF_vars(Attempt) /\ WF_vars(Exhausted)

\* The attempt's response is non-null, is not a bot-detection page (no result
\* elements and a block phrase in the text) and does not have status 503.
Qualifies(nav) ==
    /\ nav # Raised
    /\ nav # NoResponse
    /\ ~(~nav.html.results /\ has_block_phrase(nav.html.text))
    /\ nav.status # 503

QualifyingAttempts == {k \in 1..Len(navigations) : Qualifies(navigations[k])}

\* At most retries attempts are made; none is made after one that qualifies;
\* what is returned is the HTML of the first attempt that qualifies, or None
\* after exactly retries attempts of which none qualifies.
FetchPageSafe ==
    /\ Len(navigations) <= retries
    /\ \A k \in QualifyingAttempts : k = Len(navigations)
    /\ returned = Pending => QualifyingAttempts = {}
    /\ QualifyingAttempts # {} => returned = navigations[Len(navigations)].html
    /\ returned = NoPage => (Len(navigations) = retries /\ QualifyingAttempts = {})
    /\ returned \notin {Pending, NoPage} => QualifyingAttempts # {}

\* C18: fetch_page terminates after at most retries navigation attempts; it
\* returns the HTML of the first attempt whose response is non-null, is not a
\* bot-detection page and does not have status 503, and makes no attempt
\* after it; if no attempt qualifies, or every attempt raises, it returns
\* None after exactly retries attempts.
C18_FetchPage ==
    /\ []FetchPageSafe
    /\ <>(returned # Pending)
    /\ [][returned # Pending => UNCHANGED <<navigations, returned>>]_vars

\* The third of three attempts was the first to qualify, after a
\* bot-detection page and a 503, and its HTML was returned.
C18_Witness ==
    /\ retries = 3
    /\ Len(navigations) = 3
    /\ navigations[1] = Response(200, Html(FALSE, "Access Denied"))
    /\ navigations[2].goto = "response" /\ navigations[2].status = 503
    /\ returned = Html(TRUE, "MOS 6581 SID $10.00")

\* Three attempts raised, and None was returned.
C18_WitnessNone ==
    /\ retries = 3
    /\ navigations = <<Raised, Raised, Raised>>
    /\ returned = NoPage

\* A page with results was returned on the first attempt although its text
\* has a block phrase.
C18_WitnessResults ==
    /\ Len(navigations) = 1
    /\ returned = Html(TRUE, "6581 Access Denied sticker")

====
